---- MODULE Spec2Model ----
(***************************************************************************)
(* A model of the repr VS Code extension: the status bar (statusBar.ts),   *)
(* the CLI wrappers (cli.ts), the command handlers (extension.ts) and the  *)
(* dashboard (dashboard.ts).                                               *)
(*                                                                         *)
(* The extension host is single threaded: every async function runs from   *)
(* one await to the next without interruption.  A task is one running      *)
(* instance of an async function; one action is one such uninterrupted     *)
(* segment: it consumes the result of the CLI invocation (or dialog, or    *)
(* timer) the task was awaiting and runs the code up to the next await.    *)
(* The external CLI is opaque: the result of an invocation is drawn from   *)
(* a small set of exit statuses and outputs when the invocation completes. *)
(***************************************************************************)
EXTENDS Integers, Sequences, FiniteSets, TLC

\* Bounds of the model.
MaxSync == 2           \* runs of the repr.sync command in one behaviour
MaxAuth == 1           \* runs of repr.login, and of repr.logout
MaxRefresh == 2        \* runs of dashboard.refresh in one behaviour
MaxCommits == 12       \* commits in one answer of 'commits --json'

VARIABLES
    activated,      \* activate() has run
    currentState,   \* ReprStatusBar.currentState
    tasks,          \* task id -> the async function instance in that slot
    calls,          \* CLI subprocesses in flight: [task, cmd, slot]
    panel,          \* ReprDashboard.panel: "none" or "open"
    panels,         \* the webview panels that exist (created, not disposed)
    html,           \* panel.webview.html
    settings,       \* the editor's persisted settings of section "repr"
    lastProbe,      \* history: outcome of the last completed status/sync call
    issued          \* history: event id -> the CLI invocations it issued

vars == <<activated, currentState, tasks, calls, panel, panels, html,
          settings, lastProbe, issued>>

\* A slot holds one instance of an async function; an event (a command, a
\* webview message, the activation) is named by the slot of its handler.
Slots(name, n) == {<<name, k>> : k \in 1..n}
TaskIds ==
    Slots("updateSyncTime", 1) \cup Slots("checkCLI", 1) \cup
    Slots("discover", 1) \cup Slots("sync", MaxSync) \cup
    Slots("login", MaxAuth) \cup Slots("logout", MaxAuth) \cup
    Slots("refresh", MaxRefresh) \cup Slots("cmd", 1) \cup Slots("msg", 1)
Activation == <<"checkCLI", 1>>

\* null as a value of the CLI data; undefined as a dismissed dialog.
Null == [null |-> TRUE]
Undefined == "undefined"
Free ==
    [kind |-> "free", pc |-> "free", ev |-> <<>>, msgs |-> {}, errs |-> {},
     loc |-> <<>>]

\* The pages the webview shows.
Page(name) == [page |-> name]

(***************************************************************************)
(* The subprocess: execAsync resolves with the output when the CLI exits   *)
(* with status 0 and rejects otherwise.  An output is raw text or JSON.    *)
(***************************************************************************)
Raw(s) == [json |-> FALSE, text |-> s, val |-> Null]
Json(v) == [json |-> TRUE, text |-> "x", val |-> v]
Exit0(out) == [ok |-> TRUE, stdout |-> out]
ExitErr(out) == [ok |-> FALSE, stdout |-> out]

\* String.prototype.trim() followed by .length, on the texts of the model.
TrimLength(s) == IF s \in {"", " "} THEN 0 ELSE 1

\* JSON documents of the CLI, as far as the extension reads them.
StatusValues == {[authenticated |-> b] : b \in BOOLEAN}
SyncValues == {[synced |-> n, skipped |-> m] : n \in 0..1, m \in 0..1}
ModeValues == {[mode |-> "local", locked |-> FALSE]}
RepoNames == {"r1", "r2"}
Repo(p, h) == [path |-> p, hook_installed |-> h]
RepoLists ==
    {<<>>, <<Repo("r1", TRUE)>>, <<Repo("r1", FALSE)>>,
     <<Repo("r1", TRUE), Repo("r2", TRUE)>>,
     <<Repo("r1", TRUE), Repo("r2", FALSE)>>}
StoryLists == {<<>>, <<"s1">>, <<"s1", "s2">>}
\* 'stories --json' prints an array, or an object that may hold 'stories'.
StoriesValues ==
    {[isArray |-> TRUE, hasStories |-> FALSE, stories |-> l] : l \in StoryLists}
    \cup {[isArray |-> FALSE, hasStories |-> TRUE, stories |-> <<"s1">>],
          [isArray |-> FALSE, hasStories |-> TRUE, stories |-> <<"s1", "s2">>],
          [isArray |-> FALSE, hasStories |-> FALSE, stories |-> <<>>]}
GenerateValues == {[generated |-> n] : n \in 0..1}
UserValues == {[username |-> u] : u \in {"", "u1"}}
\* A list of n commits.  The shape decides the repository fields (a missing
\* field is ""): all in r1 (with a repoName that must not count), every third
\* in r2 by repoName only, the first without any name, the last in a
\* repository called 'constructor'.  The order decides the dates.
CommitList(n, shape, order) ==
    [i \in 1..n |->
       [sha |-> i,
        repo_name |-> CASE shape = "one" -> "r1"
                        [] shape = "two" -> IF i % 3 = 0 THEN "" ELSE "r1"
                        [] shape = "unnamed" -> IF i = 1 THEN "" ELSE "r1"
                        [] shape = "inherited" -> IF i = n THEN "constructor" ELSE "r1",
        repoName |-> CASE shape = "one" -> "r2"
                       [] shape = "two" -> IF i % 3 = 0 THEN "r2" ELSE ""
                       [] OTHER -> "",
        date |-> CASE order = "rising" -> i
                   [] order = "falling" -> n + 1 - i
                   [] order = "equal" -> 1]]
CommitValues ==
    {CommitList(n, shape, order) :
        n \in 0..MaxCommits, shape \in {"one", "two", "unnamed", "inherited"},
        order \in {"rising", "falling", "equal"}}
\* 'null' on stdout: JSON that is not an array.
JsonNull == [json |-> TRUE, text |-> "null", val |-> <<>>]

\* The lines 'hooks status' prints: a repository header (starting with the
\* mark, checked or open), a line about the hook, a blank line.
HookLines ==
    {[head |-> TRUE, check |-> c, name |-> "r1", hookInstalled |-> FALSE,
      noHook |-> FALSE, blank |-> FALSE] : c \in BOOLEAN}
    \cup {[head |-> FALSE, check |-> c, name |-> "", hookInstalled |-> TRUE,
           noHook |-> n, blank |-> FALSE] : c, n \in BOOLEAN}
    \cup {[head |-> FALSE, check |-> FALSE, name |-> "", hookInstalled |-> FALSE,
           noHook |-> FALSE, blank |-> TRUE]}
HookTexts == {<<>>} \cup {<<a>> : a \in HookLines} \cup
             {<<a, b>> : a \in {l \in HookLines : l.head}, b \in HookLines}
Text(lines) == [json |-> FALSE, text |-> IF lines = <<>> THEN "" ELSE "x",
                val |-> lines]

\* What a failing CLI may have written to stdout: nothing, text, or a JSON
\* object with an 'error' field (empty stands for a missing or falsy one).
FailedOutputs ==
    {Raw(""), Raw("x"), Json([error |-> "e1"]), Json([error |-> ""])}

\* What the CLI can answer to a command line.
ExecResults(cmd) ==
    {ExitErr(out) : out \in FailedOutputs} \cup
    CASE cmd[1] = "--version" -> {Exit0(Raw(s)) : s \in {"", " ", "x"}}
      [] cmd[1] = "status --json" ->
            {Exit0(Json(v)) : v \in StatusValues} \cup {Exit0(Raw("x"))}
      [] cmd[1] = "sync --json" ->
            {Exit0(Json(v)) : v \in SyncValues} \cup {Exit0(Raw("x"))}
      [] cmd[1] = "mode --json" ->
            {Exit0(Json(v)) : v \in ModeValues} \cup {Exit0(Raw("x"))}
      [] cmd[1] = "repos list --json" ->
            {Exit0(Json(v)) : v \in RepoLists} \cup {Exit0(Raw("x"))}
      [] cmd[1] = "stories --json" ->
            {Exit0(Json(v)) : v \in StoriesValues} \cup {Exit0(Raw("x"))}
      [] cmd[1] = "hooks status" -> {Exit0(Text(l)) : l \in HookTexts}
      [] cmd[1] = "generate --json" ->
            {Exit0(Json(v)) : v \in GenerateValues} \cup {Exit0(Raw("x"))}
      [] cmd[1] = "whoami --json" ->
            {Exit0(Json(v)) : v \in UserValues} \cup {Exit0(Raw("x"))}
      [] cmd[1] = "commits --json" ->
            {Exit0(Json(v)) : v \in CommitValues}
            \cup {Exit0(Raw("x")), Exit0(JsonNull)}
      [] cmd[1] = "profiles --json" -> {Exit0(Json(<<>>)), Exit0(Raw("x"))}
      [] cmd[1] \in {"push --json", "pull --json", "config --json", "story --json"} ->
            {Exit0(Json([ok |-> TRUE])), Exit0(Raw("x"))}
      [] cmd[1] = "profile export" -> {Exit0(Raw("x")), Exit0(Raw(""))}
      [] OTHER -> {Exit0(Raw("x"))}

(***************************************************************************)
(* ReprCLI: the wrappers.  Each returns [threw, val, log]: whether the     *)
(* returned promise rejects, the value it resolves with, and the [ERROR]   *)
(* lines appended to the output channel.                                   *)
(***************************************************************************)
\* execCommand: resolves with the result, or logs and rethrows.
ExecLog(r) == IF r.ok THEN {} ELSE {"Command failed"}

\* catch { }: a catch clause without a test catches whatever its try block
\* threw.
CatchesAll(thrown) == TRUE

\* execCommand as its caller sees it: [threw, error, log].  In the catch
\* branch the Error made from the JSON 'error' field is thrown inside the
\* try block that guards JSON.parse, so the catch of that block takes it,
\* and the statement after it throws the error of execAsync.
ExecCommand(r) ==
    IF r.ok
    THEN [threw |-> FALSE, error |-> [original |-> FALSE, message |-> ""],
          log |-> ExecLog(r)]
    ELSE LET original == [original |-> TRUE, message |-> "Command failed"]
             thrown == IF r.stdout.text # "" /\ r.stdout.json
                          /\ r.stdout.val.error # ""
                       THEN <<[original |-> FALSE, message |-> r.stdout.val.error]>>
                       ELSE <<>>
         IN  [threw |-> TRUE,
              error |-> IF thrown # <<>> /\ ~CatchesAll(thrown) THEN thrown[1]
                        ELSE original,
              log |-> ExecLog(r)]

\* try { stdout = await execCommand(..); return JSON.parse(stdout) }
\* catch { appendError(tag); return fallback }
TryParse(r, tag, fallback) ==
    IF r.ok /\ r.stdout.json
    THEN [threw |-> FALSE, val |-> r.stdout.val, log |-> ExecLog(r)]
    ELSE [threw |-> FALSE, val |-> fallback, log |-> ExecLog(r) \cup {tag}]

\* await execCommand(..) with no try around it.
Propagate(r) ==
    [threw |-> ~r.ok, val |-> Null, log |-> ExecLog(r)]

IsInstalled(r) ==
    [threw |-> FALSE,
     val |-> IF r.ok THEN TrimLength(r.stdout.text) > 0 ELSE FALSE,
     log |-> ExecLog(r)]

GetStatus(r) == TryParse(r, "Failed to get status", Null)

\* slice(0, limit) of a list.
Slice(l, n) == IF Len(l) <= n THEN l ELSE SubSeq(l, 1, n)

\* A getStories that would count the stories after the cut.
GetStoriesCountsCut(r, limit) ==
    IF r.ok /\ r.stdout.json
    THEN LET parsed == r.stdout.val
             stories == IF parsed.isArray \/ parsed.hasStories
                        THEN parsed.stories ELSE <<>>
             limited == IF limit # 0 THEN Slice(stories, limit) ELSE stories
         IN  [threw |-> FALSE,
              val |-> [stories |-> limited, total |-> Len(limited)],
              log |-> {}]
    ELSE [threw |-> FALSE, val |-> Null, log |-> {"Failed to get stories"}]

\* getStories: the array, or the object's 'stories' (or none), cut to limit.
GetStories(r, limit) ==
    IF r.ok /\ r.stdout.json
    THEN LET parsed == r.stdout.val
             stories == IF parsed.isArray \/ parsed.hasStories
                        THEN parsed.stories ELSE <<>>
         IN  [threw |-> FALSE,
              val |-> [stories |-> IF limit # 0 THEN Slice(stories, limit) ELSE stories,
                       total |-> Len(stories)],
              log |-> {}]
    ELSE [threw |-> FALSE, val |-> Null,
          log |-> ExecLog(r) \cup {"Failed to get stories"}]

GetProfiles(r) == TryParse(r, "Failed to get profiles", Null)
GetConfig(r) == TryParse(r, "Failed to get config", Null)
CliSync(r) == TryParse(r, "Failed to sync", Null)
GetTrackedRepos(r) == TryParse(r, "Failed to get tracked repos", <<>>)
AddRepo(r) == Propagate(r)
RemoveRepo(r) == Propagate(r)

\* getHookStatus: the text is parsed line by line; a header names the
\* repository, the next line about the hook closes its entry.
RECURSIVE ParseHooks(_, _)
ParseHooks(lines, currentRepo) ==
    IF lines = <<>> THEN <<>>
    ELSE LET line == Head(lines)
         IN  IF line.head THEN ParseHooks(Tail(lines), line.name)
             ELSE IF currentRepo # "" /\ line.hookInstalled
                  THEN <<[name |-> currentRepo,
                          installed |-> line.check \/ ~line.noHook]>>
                       \o ParseHooks(Tail(lines), "")
                  ELSE ParseHooks(Tail(lines), currentRepo)

GetHookStatus(r) ==
    IF r.ok
    THEN [threw |-> FALSE,
          val |-> ParseHooks(SelectSeq(r.stdout.val, LAMBDA l : ~l.blank), ""),
          log |-> {}]
    ELSE [threw |-> FALSE, val |-> <<>>,
          log |-> ExecLog(r) \cup {"Failed to get hook status"}]

InstallHook(r) == Propagate(r)
RemoveHook(r) == Propagate(r)
\* A login that would swallow the failure of its subprocess.
CliLoginSwallows(r) == [threw |-> FALSE, val |-> Null, log |-> ExecLog(r)]
CliLogin(r) == Propagate(r)
CliLogout(r) == Propagate(r)
\* whoami without its try/catch (the code has one).
WhoamiUncaught(r) == Propagate(r)
Whoami(r) == TryParse(r, "Failed to get user info", Null)
\* getCommits: val is the parsed list (the empty list stands for a parsed
\* value that is no array, which isArray tells).
GetCommits(r) ==
    [threw |-> FALSE,
     val |-> TryParse(r, "Failed to get commits", <<>>).val,
     log |-> TryParse(r, "Failed to get commits", <<>>).log,
     isArray |-> ~(r.ok /\ r.stdout.json /\ r.stdout.text = "null")]
GenerateStory(r) == TryParse(r, "Failed to generate story", Null)
GetMode(r) == TryParse(r, "Failed to get mode", Null)
Generate(r) == TryParse(r, "Failed to generate stories", Null)

\* exportProfile returns the output as it is, unparsed: a text.
ExportProfile(r) ==
    IF r.ok
    THEN [threw |-> FALSE, val |-> [text |-> r.stdout.text], log |-> {}]
    ELSE [threw |-> FALSE, val |-> Null,
          log |-> ExecLog(r) \cup {"Failed to export profile"}]

Push(r) == TryParse(r, "Failed to push", Null)
Pull(r) == TryParse(r, "Failed to pull", Null)

(***************************************************************************)
(* Tasks and invocations.                                                  *)
(***************************************************************************)
FreeIds(ts, name) == {i \in TaskIds : i[1] = name /\ ts[i].kind = "free"}
NewId(ts, name) ==
    CHOOSE i \in FreeIds(ts, name) : \A j \in FreeIds(ts, name) : i[2] <= j[2]

Task(kind, pc, ev) ==
    [kind |-> kind, pc |-> pc, ev |-> ev, msgs |-> {}, errs |-> {},
     loc |-> <<>>]

\* The event's log of invocations with one more invocation.
Issue(is, ev, cmd) == [is EXCEPT ![ev] = Append(@, cmd)]

\* The part of the state the dashboard and the invocations live in, as one
\* value, so that a handler's calls compose.
Cur ==
    [tasks |-> tasks, calls |-> calls, issued |-> issued,
     panel |-> panel, panels |-> panels, html |-> html]
Set(D) ==
    /\ tasks' = D.tasks
    /\ calls' = D.calls
    /\ issued' = D.issued
    /\ panel' = D.panel
    /\ panels' = D.panels
    /\ html' = D.html

\* getEnvVarsFromConfig: the variables execCommand adds to process.env, as
\* a set of <<name, value>> pairs, read from repr.llm.* at each invocation.
GetEnvVarsFromConfig(config) ==
    (IF config.provider = "local" /\ config.endpoint # ""
       THEN {<<"REPR_LLM_ENDPOINT", config.endpoint>>} ELSE {})
    \cup (IF config.model # "" THEN {<<"REPR_LLM_MODEL", config.model>>} ELSE {})
    \cup (IF config.apiKey # "" THEN {<<"REPR_LLM_API_KEY", config.apiKey>>}
          ELSE {})

\* Task t calls execCommand(cmd): the subprocess is started with the
\* variables of the settings of that moment.  The slot tells the calls of
\* one Promise.all apart.
InvokeSlot(D, t, cmd, k) ==
    [D EXCEPT !.calls = @ \cup {[task |-> t, cmd |-> cmd, slot |-> k,
                                 env |-> GetEnvVarsFromConfig(settings)]},
              !.issued = Issue(@, D.tasks[t].ev, cmd)]
Invoke(D, t, cmd) == InvokeSlot(D, t, cmd, 0)

Awaiting(t, kind, pc) == tasks[t].kind = kind /\ tasks[t].pc = pc

\* The invocation task t awaits, in flight.
CallOf(t) == CHOOSE c \in calls : c.task = t /\ c.slot = 0

Finish(task, msgs) == [task EXCEPT !.pc = "done", !.msgs = @ \cup msgs]

\* History: the outcome of the most recently completed status or sync call.
Probe(r) == IF r.ok /\ r.stdout.json THEN "ok" ELSE "fail"


(***************************************************************************)
(* ReprDashboard.refresh and show (dashboard.ts).                          *)
(***************************************************************************)
\* A refresh that would not wait for the installation probe before its
\* first data call (the code does wait).
DashRefreshEager(D, ev) ==
    IF D.panel = "none" THEN D
    ELSE LET i == NewId(D.tasks, "refresh")
             D1 == [D EXCEPT !.tasks[i] = Task("refresh", "await_installed", ev)]
         IN  InvokeSlot(Invoke(D1, i, <<"--version", "">>), i, <<"status --json", "">>, 1)

\* dashboard.refresh() up to its first await: nothing without a panel,
\* otherwise the installation probe is started.
DashRefresh(D, ev) ==
    IF D.panel = "none" THEN D
    ELSE LET i == NewId(D.tasks, "refresh")
             D1 == [D EXCEPT !.tasks[i] = Task("refresh", "await_installed", ev)]
         IN  Invoke(D1, i, <<"--version", "">>)

\* The bound on refresh instances, as a guard of the steps that call refresh.
CanRefresh(D) == D.panel = "none" \/ FreeIds(D.tasks, "refresh") # {}

\* A show() that would create a panel whether one exists or not.
DashShowAlwaysCreates(D, ev) ==
    DashRefresh([D EXCEPT !.panel = "open", !.panels = @ + 1,
                          !.html = Page("loading")], ev)

\* dashboard.show(): reveal the panel, or create it with the loading page;
\* then refresh.
DashShow(D, ev) ==
    LET D1 == IF D.panel = "open" THEN D
              ELSE [D EXCEPT !.panel = "open", !.panels = @ + 1,
                             !.html = Page("loading")]
    IN  DashRefresh(D1, ev)

\* The five data calls of refresh, in the order of the Promise.all.
DataCmds ==
    <<  <<"status --json", "">>, <<"mode --json", "">>,
        <<"repos list --json", "">>, <<"hooks status", "">>,
        <<"stories --json", "">>  >>
DataSlots == 1..5
RefreshLimit == 100

\* The wrapper behind each data call.
DataValue(k, r) ==
    CASE k = 1 -> GetStatus(r)
      [] k = 2 -> GetMode(r)
      [] k = 3 -> GetTrackedRepos(r)
      [] k = 4 -> GetHookStatus(r)
      [] k = 5 -> GetStories(r, RefreshLimit)

Pending == [state |-> "pending", val |-> <<>>]
Settled(v) == [state |-> "value", val |-> <<v>>]
\* timeout(promise, ms): the timer won the race, the call contributes null.
TimedOut == [state |-> "timeout", val |-> <<>>]

\* A list result, or [] for null; an object result, or null.
OrEmpty(s) == IF s.state = "timeout" THEN <<>> ELSE s.val[1]
OrNull(s) == IF s.state = "timeout" THEN Null ELSE s.val[1]

\* storiesData?.stories?.length || storiesData?.total || 0
StoriesCount(storiesData) ==
    IF storiesData = Null THEN 0
    ELSE IF Len(storiesData.stories) # 0 THEN Len(storiesData.stories)
         ELSE storiesData.total

\* getHtmlContent, by the data the page shows.
GetHtmlContent(status, mode, trackedRepos, hookStatus, storiesCount) ==
    [page |-> "content",
     isAuthenticated |-> IF status = Null THEN FALSE ELSE status.authenticated,
     modeDisplay |-> IF mode = Null THEN "UNKNOWN" ELSE mode.mode,
     trackedRepos |-> trackedRepos,
     hookStatus |-> hookStatus,
     storiesCount |-> storiesCount,
     activeTab |-> "recent"]             \* <div class="tab active" data-tab="recent">

\* The tab the document in the webview shows: only the content page has
\* tabs and a listener for 'switchTab'.
ActiveTab(page) == IF page.page = "content" THEN page.activeTab ELSE "none"
SwitchTab(page, tab) ==
    IF page.page = "content" THEN [page EXCEPT !.activeTab = tab] ELSE page

ContentOf(res) ==
    GetHtmlContent(OrNull(res[1]), OrNull(res[2]), OrEmpty(res[3]),
                   OrEmpty(res[4]), StoriesCount(OrNull(res[5])))

\* The end of refresh once the Promise.all has settled: the content page is
\* written; without a panel the write throws, and so does the write of the
\* error page in the catch block, so that refresh rejects.
Render(D, t, res) ==
    IF D.panel = "none"
    THEN [D EXCEPT !.tasks[t].pc = "rejected",
                   !.tasks[t].errs = @ \cup {"Dashboard refresh failed"},
                   !.tasks[t].loc = [res |-> res, timers |-> D.tasks[t].loc.timers]]
    ELSE [D EXCEPT !.tasks[t].pc = "done",
                   !.tasks[t].loc = [res |-> res, timers |-> D.tasks[t].loc.timers],
                   !.html = ContentOf(res)]

AllSettled(res) == \A k \in DataSlots : res[k].state # "pending"

\* A race with one timer shared by the five calls (the code gives each call
\* its own): the timeout would null every call still pending.
SettleShared(D, t, k, s) ==
    LET res == [j \in DataSlots |->
                   IF j = k \/ (s.state = "timeout"
                                /\ D.tasks[t].loc.res[j].state = "pending")
                   THEN s ELSE D.tasks[t].loc.res[j]]
    IN  IF AllSettled(res) THEN Render(D, t, res)
        ELSE [D EXCEPT !.tasks[t].loc.res = res]

\* One data call settled or timed out: refresh goes on when all five have.
Settle(D, t, k, s) ==
    LET res == [D.tasks[t].loc.res EXCEPT ![k] = s]
    IN  IF AllSettled(res) THEN Render(D, t, res)
        ELSE [D EXCEPT !.tasks[t].loc.res = res]

\* refresh after the installation probe.
RefreshInstalledDone(t) ==
    /\ Awaiting(t, "refresh", "await_installed")
    /\ \E r \in ExecResults(CallOf(t).cmd) :
         LET D1 == [Cur EXCEPT !.calls = @ \ {CallOf(t)}]
             D2 == [D1 EXCEPT !.tasks[t].pc = "await_data",
                              !.tasks[t].loc =
                                 [res |-> [k \in DataSlots |-> Pending], timers |-> 0]]
             Start[k \in 0..5] ==
                 IF k = 0 THEN D2 ELSE InvokeSlot(Start[k - 1], t, DataCmds[k], k)
         IN  IF ~IsInstalled(r).val
             THEN IF panel = "none"
                  THEN Set([D1 EXCEPT !.tasks[t].pc = "rejected"])
                  ELSE Set([D1 EXCEPT !.tasks[t].pc = "done",
                                      !.html = Page("notInstalled")])
             ELSE Set(Start[5])
    /\ UNCHANGED <<activated, currentState, settings, lastProbe>>

\* A data call of refresh completes.  After its timer has fired, or after
\* refresh has ended, the result is dropped.
RefreshDataDone(t, k) ==
    /\ tasks[t].kind = "refresh"
    /\ \E c \in calls :
         /\ c.task = t /\ c.slot = k
         /\ \E r \in ExecResults(c.cmd) :
              LET D1 == [Cur EXCEPT !.calls = @ \ {c}]
              IN  /\ IF tasks[t].pc = "await_data" /\ tasks[t].loc.res[k].state = "pending"
                     THEN Set(Settle(D1, t, k, Settled(DataValue(k, r).val)))
                     ELSE Set(D1)
                  /\ lastProbe' = IF k = 1 THEN Probe(r) ELSE lastProbe
    /\ UNCHANGED <<activated, currentState, settings>>

\* The 10 s timers of the five races fire in the order they were set.
RefreshTimeout(t) ==
    /\ Awaiting(t, "refresh", "await_data")
    /\ tasks[t].loc.timers < 5
    /\ LET k == tasks[t].loc.timers + 1
           D1 == [Cur EXCEPT !.tasks[t].loc.timers = k]
       IN  IF tasks[t].loc.res[k].state = "pending"
           THEN Set(Settle(D1, t, k, TimedOut))
           ELSE Set(D1)
    /\ UNCHANGED <<activated, currentState, settings, lastProbe>>

\* The user closes the dashboard: onDidDispose clears the panel.
PanelDispose ==
    /\ panel = "open"
    /\ panel' = "none"
    /\ panels' = panels - 1
    /\ html' = Page("none")
    /\ UNCHANGED <<activated, currentState, tasks, calls, settings, lastProbe, issued>>

(***************************************************************************)
(* activate (extension.ts) and the ReprStatusBar constructor.              *)
(***************************************************************************)
Activate ==
    /\ ~activated
    /\ activated' = TRUE
    /\ currentState' = "synced"                 \* constructor: setState('synced')
    /\ LET ust == <<"updateSyncTime", 1>>
           chk == <<"checkCLI", 1>>
           dsc == <<"discover", 1>>
           D1 == [Cur EXCEPT
                    !.tasks[ust] = Task("updateSyncTime", "await_status", Activation),
                    !.tasks[chk] = Task("checkCLIInstallation", "await_installed", Activation),
                    !.tasks[dsc] = Task("discoverAndPromptForRepos", "timer", Activation)]
           D2 == Invoke(D1, ust, <<"status --json", "">>)
           D3 == Invoke(D2, chk, <<"--version", "">>)
       IN  Set(IF settings.showOnStartup THEN DashShow(D3, Activation) ELSE D3)
    /\ UNCHANGED <<settings, lastProbe>>

\* ReprStatusBar.updateSyncTime after its await: only lastSyncTime is set.
UpdateSyncTimeDone(t) ==
    /\ Awaiting(t, "updateSyncTime", "await_status")
    /\ \E r \in ExecResults(CallOf(t).cmd) :
         /\ lastProbe' = Probe(r)
         /\ Set([Cur EXCEPT !.calls = @ \ {CallOf(t)},
                            !.tasks[t] = Finish(@, {})])
    /\ UNCHANGED <<activated, currentState, settings>>

(***************************************************************************)
(* checkCLIInstallation (extension.ts).                                    *)
(***************************************************************************)
CheckInstalledDone(t) ==
    /\ Awaiting(t, "checkCLIInstallation", "await_installed")
    /\ \E r \in ExecResults(CallOf(t).cmd) :
         LET D1 == [Cur EXCEPT !.calls = @ \ {CallOf(t)}]
         IN  IF ~IsInstalled(r).val
             THEN /\ currentState' = "notInstalled"
                  /\ Set([D1 EXCEPT !.tasks[t].pc = "await_warning",
                                    !.tasks[t].loc = <<r>>])
             ELSE /\ currentState' = currentState
                  /\ Set(Invoke([D1 EXCEPT !.tasks[t].pc = "await_status",
                                           !.tasks[t].loc = <<r>>],
                                t, <<"status --json", "">>))
    /\ UNCHANGED <<activated, settings, lastProbe>>

\* The answer to the 'Repr CLI not found' warning.
CheckWarningDone(t) ==
    /\ Awaiting(t, "checkCLIInstallation", "await_warning")
    /\ \E action \in {"Copy Install Command", "Open Terminal", "Dismiss", Undefined} :
         Set([Cur EXCEPT !.tasks[t] =
                Finish(@, IF action = "Copy Install Command"
                          THEN {"Install command copied to clipboard"}
                          ELSE {})])
    /\ UNCHANGED <<activated, currentState, settings, lastProbe>>

CheckStatusState(status) ==
    IF status # Null /\ status.authenticated THEN "synced" ELSE "notAuthenticated"

CheckStatusDone(t) ==
    /\ Awaiting(t, "checkCLIInstallation", "await_status")
    /\ \E r \in ExecResults(CallOf(t).cmd) :
         /\ currentState' = CheckStatusState(GetStatus(r).val)
         /\ lastProbe' = Probe(r)
         /\ Set([Cur EXCEPT !.calls = @ \ {CallOf(t)},
                            !.tasks[t] = Finish([@ EXCEPT !.loc = Append(@, r)], {})])
    /\ UNCHANGED <<activated, settings>>

(***************************************************************************)
(* handleSync (extension.ts), the repr.sync command.                       *)
(***************************************************************************)
\* handleSync of event ev up to cli.sync(), as the next task of slot "sync".
HandleSync(D, ev) ==
    LET t == NewId(D.tasks, "sync")
    IN  Invoke([D EXCEPT !.tasks[t] = Task("handleSync", "await_sync", ev)],
               t, <<"sync --json", "">>)

StartSync ==
    /\ activated
    /\ FreeIds(tasks, "sync") # {}
    /\ currentState' = "analyzing"
    /\ Set(HandleSync(Cur, NewId(tasks, "sync")))
    /\ UNCHANGED <<activated, settings, lastProbe>>

SyncMessage(result) ==
    IF result # Null /\ result.synced > 0 THEN "Synced repository(ies)!"
    ELSE IF result # Null /\ result.synced = 0 /\ result.skipped > 0
         THEN "No repositories needed syncing"
         ELSE "Sync complete!"

\* handleSync after cli.sync() has settled: the progress callback, or the
\* catch block when the callback threw.
SyncOutcome(res) ==
    IF res.threw
    THEN [state |-> "error", msgs |-> {"Sync failed"}, refresh |-> FALSE]
    ELSE [state |-> "synced", msgs |-> {SyncMessage(res.val)}, refresh |-> TRUE]

SyncDone(t) ==
    /\ Awaiting(t, "handleSync", "await_sync")
    /\ CanRefresh(Cur)
    /\ \E r \in ExecResults(CallOf(t).cmd) :
         LET o == SyncOutcome(CliSync(r))
             D1 == [Cur EXCEPT !.calls = @ \ {CallOf(t)},
                               !.tasks[t] = Finish(@, o.msgs)]
         IN  /\ currentState' = o.state
             /\ lastProbe' = Probe(r)
             /\ Set([(IF o.refresh THEN DashRefresh(D1, tasks[t].ev) ELSE D1)
                        EXCEPT !.tasks[t].loc = Probe(r)])
    /\ UNCHANGED <<activated, settings>>

(***************************************************************************)
(* handleLogin and handleLogout (extension.ts).                            *)
(***************************************************************************)
\* handleLogin of event ev up to cli.login().
HandleLogin(D, ev) ==
    LET t == NewId(D.tasks, "login")
    IN  Invoke([D EXCEPT !.tasks[t] = Task("handleLogin", "await_login", ev)],
               t, <<"login", "">>)

StartLogin ==
    /\ activated
    /\ FreeIds(tasks, "login") # {}
    /\ Set(HandleLogin(Cur, NewId(tasks, "login")))
    /\ UNCHANGED <<activated, currentState, settings, lastProbe>>

\* cli.login() settled: on success the status check is scheduled.  The
\* task keeps whether the login succeeded and what the check reported.
LoginDone(t) ==
    /\ Awaiting(t, "handleLogin", "await_login")
    /\ \E r \in ExecResults(CallOf(t).cmd) :
         LET D1 == [Cur EXCEPT !.calls = @ \ {CallOf(t)}]
             D2 == [D1 EXCEPT !.tasks[t].loc = [loginOk |-> r.ok]]
         IN  IF CliLogin(r).threw
             THEN Set([D2 EXCEPT !.tasks[t] = Finish(@, {"Login failed"})])
             ELSE Set([D2 EXCEPT !.tasks[t].kind = "loginCheck",
                                 !.tasks[t].pc = "timer",
                                 !.tasks[t].msgs = @ \cup {"Login initiated"}])
    /\ UNCHANGED <<activated, currentState, settings, lastProbe>>

\* The setTimeout callback of handleLogin starts: cli.getStatus().
LoginTimer(t) ==
    /\ Awaiting(t, "loginCheck", "timer")
    /\ Set(Invoke([Cur EXCEPT !.tasks[t].pc = "await_status"],
                  t, <<"status --json", "">>))
    /\ UNCHANGED <<activated, currentState, settings, lastProbe>>

LoginCheckDone(t) ==
    /\ Awaiting(t, "loginCheck", "await_status")
    /\ CanRefresh(Cur)
    /\ \E r \in ExecResults(CallOf(t).cmd) :
         LET status == GetStatus(r).val
             reported == IF status = Null THEN "null"
                         ELSE IF status.authenticated THEN "authenticated"
                         ELSE "unauthenticated"
             D1 == [Cur EXCEPT !.calls = @ \ {CallOf(t)},
                               !.tasks[t].loc = [loginOk |-> TRUE,
                                                 reported |-> reported]]
         IN  /\ lastProbe' = Probe(r)
             /\ IF status # Null /\ status.authenticated
                THEN /\ currentState' = "synced"
                     /\ Set(DashRefresh(
                            [D1 EXCEPT !.tasks[t] = Finish(@, {"Successfully logged in!"})],
                            tasks[t].ev))
                ELSE /\ currentState' = currentState
                     /\ Set([D1 EXCEPT !.tasks[t] = Finish(@, {})])
    /\ UNCHANGED <<activated, settings>>

\* handleLogout up to cli.logout(): the confirmation dialog and its answer.
StartLogout ==
    /\ activated
    /\ FreeIds(tasks, "logout") # {}
    /\ \E confirm \in {"Yes", "No", Undefined} :
         LET t == NewId(tasks, "logout")
         IN  IF confirm # "Yes"
             THEN Set([Cur EXCEPT !.tasks[t] = Finish(Task("handleLogout", "start", t), {})])
             ELSE Set(Invoke([Cur EXCEPT !.tasks[t] = Task("handleLogout", "await_logout", t)],
                             t, <<"logout", "">>))
    /\ UNCHANGED <<activated, currentState, settings, lastProbe>>

LogoutDone(t) ==
    /\ Awaiting(t, "handleLogout", "await_logout")
    /\ CanRefresh(Cur)
    /\ \E r \in ExecResults(CallOf(t).cmd) :
         LET D1 == [Cur EXCEPT !.calls = @ \ {CallOf(t)}]
         IN  IF CliLogout(r).threw
             THEN /\ currentState' = currentState
                  /\ Set([D1 EXCEPT !.tasks[t] = Finish(@, {"Logout failed"})])
             ELSE /\ currentState' = "notAuthenticated"
                  /\ Set(DashRefresh(
                         [D1 EXCEPT !.tasks[t] = Finish(@, {"Successfully logged out"})],
                         tasks[t].ev))
    /\ UNCHANGED <<activated, settings, lastProbe>>

(***************************************************************************)
(* discoverAndPromptForRepos (extension.ts), run 2 s after activation.     *)
(***************************************************************************)
DiscoverTimer(t) ==
    /\ Awaiting(t, "discoverAndPromptForRepos", "timer")
    /\ IF ~settings.promptForNewRepos
       THEN Set([Cur EXCEPT !.tasks[t] = Finish(@, {})])
       ELSE Set(Invoke([Cur EXCEPT !.tasks[t].pc = "await_installed"],
                       t, <<"--version", "">>))
    /\ UNCHANGED <<activated, currentState, settings, lastProbe>>

(***************************************************************************)
(* The other command handlers of extension.ts.  A dialog that is awaited   *)
(* before anything else has happened is answered in the step that shows    *)
(* it: its answer is an input of the step.                                 *)
(***************************************************************************)
Frame == UNCHANGED <<activated, currentState, settings, lastProbe>>

\* vscode.workspace.workspaceFolders: none, one folder, or two.
Workspaces == {<<>>, <<"r1">>, <<"r2", "r1">>}

\* The state with the invocation task t awaited taken out of flight.
Resume(t) == [Cur EXCEPT !.calls = @ \ {CallOf(t)}]

\* The handler ends, showing msgs; with refresh it calls dashboard.refresh().
EndWith(D, t, msgs, refresh) ==
    LET D1 == [D EXCEPT !.tasks[t] = Finish(@, msgs)]
    IN  IF refresh THEN DashRefresh(D1, D.tasks[t].ev) ELSE D1

\* A handler starts as task t of event ev by calling the CLI.
Begin(D, t, ev, kind, pc, cmd) ==
    Invoke([D EXCEPT !.tasks[t] = Task(kind, pc, ev)], t, cmd)

\* A handler that returns before any CLI call.
Skip(D, t, ev, kind, msgs) ==
    [D EXCEPT !.tasks[t] = Finish(Task(kind, "start", ev), msgs)]

\* handleAddCurrentRepo up to cli.addRepo(workspacePath).
StartAddCurrentRepo ==
    /\ activated
    /\ FreeIds(tasks, "cmd") # {}
    /\ \E ws \in Workspaces :
         LET t == NewId(tasks, "cmd")
         IN  IF ws = <<>>
             THEN Set(Skip(Cur, t, t, "handleAddCurrentRepo", {"No workspace folder open"}))
             ELSE Set(Begin(Cur, t, t, "handleAddRepo", "await_add", <<"repos add", ws[1]>>))
    /\ Frame

\* handleAddRepo up to cli.addRepo(repoPath): the folder dialog.
HandleAddRepo(D, t, ev, folder) ==
    IF folder = Undefined
    THEN Skip(D, t, ev, "handleAddRepo", {})
    ELSE Begin(D, t, ev, "handleAddRepo", "await_add", <<"repos add", folder>>)

StartAddRepo ==
    /\ activated
    /\ FreeIds(tasks, "cmd") # {}
    /\ \E folder \in RepoNames \cup {Undefined} :
         Set(HandleAddRepo(Cur, NewId(tasks, "cmd"), NewId(tasks, "cmd"), folder))
    /\ Frame

\* A handler that would run 'repos add' again after a failure (the code
\* reports the failure and ends).
AddRepoRetry(t) ==
    /\ Awaiting(t, "handleAddRepo", "await_add")
    /\ CanRefresh(Cur)
    /\ \E r \in ExecResults(CallOf(t).cmd) :
         IF AddRepo(r).threw
         THEN Set(Invoke(Resume(t), t, CallOf(t).cmd))
         ELSE Set(EndWith(Resume(t), t, {"Added to tracked repositories"}, TRUE))
    /\ Frame

\* cli.addRepo settled, in handleAddCurrentRepo and handleAddRepo alike.
AddRepoDone(t) ==
    /\ Awaiting(t, "handleAddRepo", "await_add")
    /\ CanRefresh(Cur)
    /\ \E r \in ExecResults(CallOf(t).cmd) :
         IF AddRepo(r).threw
         THEN Set(EndWith(Resume(t), t, {"Failed to add repository"}, FALSE))
         ELSE Set(EndWith(Resume(t), t, {"Added to tracked repositories"}, TRUE))
    /\ Frame

\* The handlers that begin with cli.getTrackedRepos().
ListingHandlers ==
    {"handleRemoveRepo", "handleListRepos", "handleInstallHook",
     "handleCheckHookStatus", "handleRemoveHook"}

StartListing(kind) ==
    /\ activated
    /\ FreeIds(tasks, "cmd") # {}
    /\ LET t == NewId(tasks, "cmd")
       IN  Set(Begin(Cur, t, t, kind, "await_repos", <<"repos list --json", "">>))
    /\ Frame

\* handleRemoveRepo after the list: the pick and the confirmation.
RemoveRepoListed(t) ==
    /\ Awaiting(t, "handleRemoveRepo", "await_repos")
    /\ \E r \in ExecResults(CallOf(t).cmd) :
         LET trackedRepos == GetTrackedRepos(r).val
         IN  IF Len(trackedRepos) = 0
             THEN Set(EndWith(Resume(t), t, {"No repositories are being tracked"}, FALSE))
             ELSE \E selected \in 0..Len(trackedRepos), confirm \in {"Yes", "No"} :
                    IF selected = 0 \/ confirm # "Yes"
                    THEN Set(EndWith(Resume(t), t, {}, FALSE))
                    ELSE Set(Invoke([Resume(t) EXCEPT !.tasks[t].pc = "await_remove"], t,
                                    <<"repos remove", trackedRepos[selected].path>>))
    /\ Frame

RemoveRepoDone(t) ==
    /\ Awaiting(t, "handleRemoveRepo", "await_remove")
    /\ CanRefresh(Cur)
    /\ \E r \in ExecResults(CallOf(t).cmd) :
         IF RemoveRepo(r).threw
         THEN Set(EndWith(Resume(t), t, {"Failed to remove repository"}, FALSE))
         ELSE Set(EndWith(Resume(t), t, {"Removed from tracked repositories"}, TRUE))
    /\ Frame

\* handleListRepos after the list: the dashboard is shown.
ListReposListed(t) ==
    /\ Awaiting(t, "handleListRepos", "await_repos")
    /\ FreeIds(tasks, "refresh") # {}
    /\ \E r \in ExecResults(CallOf(t).cmd) :
         LET D1 == [Resume(t) EXCEPT !.tasks[t] = Finish(@, {})]
         IN  IF Len(GetTrackedRepos(r).val) = 0
             THEN Set(EndWith(Resume(t), t, {"No repositories are being tracked"}, FALSE))
             ELSE Set(DashShow(D1, tasks[t].ev))
    /\ Frame

WithHooks(repos) == SelectSeq(repos, LAMBDA x : x.hook_installed)
WithoutHooks(repos) == SelectSeq(repos, LAMBDA x : ~x.hook_installed)

\* A handler that would go on after 'Cancel' in the all-installed dialog.
InstallHookListedAnyway(t) ==
    /\ Awaiting(t, "handleInstallHook", "await_repos")
    /\ \E r \in ExecResults(CallOf(t).cmd) :
         LET trackedRepos == GetTrackedRepos(r).val
             allInstalled == Len(WithoutHooks(trackedRepos)) = 0
                             /\ Len(WithHooks(trackedRepos)) > 0
             Answered(again, action, ws) ==
                 [Resume(t) EXCEPT !.tasks[t].loc =
                     [tracked |-> trackedRepos, again |-> again,
                      action |-> action, ws |-> ws]]
         IN  IF Len(trackedRepos) = 0
             THEN Set(EndWith(Answered("", "", <<>>), t,
                              {"No repositories are being tracked"}, FALSE))
             ELSE \E again \in IF allInstalled THEN {"Reinstall Anyway", "Cancel"}
                                ELSE {""},
                     action \in {"all", "workspace", Undefined},
                     ws \in Workspaces :
                    IF FALSE
                    THEN Set(EndWith(Answered(again, "", <<>>), t, {}, FALSE))
                    ELSE IF action = Undefined
                    THEN Set(EndWith(Answered(again, action, <<>>), t, {}, FALSE))
                    ELSE IF action = "all"
                    THEN Set(Invoke([Answered(again, action, <<>>) EXCEPT
                                        !.tasks[t].pc = "await_install"], t,
                                    <<"hooks install", "--all">>))
                    ELSE IF ws = <<>>
                    THEN Set(EndWith(Answered(again, action, ws), t,
                                     {"No workspace folder open"}, FALSE))
                    ELSE Set(Invoke([Answered(again, action, ws) EXCEPT
                                        !.tasks[t].pc = "await_install"], t,
                                    <<"hooks install", ws[1]>>))
    /\ Frame

\* handleInstallHook after the list, up to cli.installHook: the status
\* dialog (shown when every tracked repository has its hook), the target
\* pick, the workspace folder.  The locals keep the answers; an answer that
\* was not asked for is "".  The second component of the command is --all,
\* or the path that installHook passes as --repo "<path>".
InstallHookListed(t) ==
    /\ Awaiting(t, "handleInstallHook", "await_repos")
    /\ \E r \in ExecResults(CallOf(t).cmd) :
         LET trackedRepos == GetTrackedRepos(r).val
             allInstalled == Len(WithoutHooks(trackedRepos)) = 0
                             /\ Len(WithHooks(trackedRepos)) > 0
             Answered(again, action, ws) ==
                 [Resume(t) EXCEPT !.tasks[t].loc =
                     [tracked |-> trackedRepos, again |-> again,
                      action |-> action, ws |-> ws]]
         IN  IF Len(trackedRepos) = 0
             THEN Set(EndWith(Answered("", "", <<>>), t,
                              {"No repositories are being tracked"}, FALSE))
             ELSE \E again \in IF allInstalled THEN {"Reinstall Anyway", "Cancel"}
                                ELSE {""},
                     action \in {"all", "workspace", Undefined},
                     ws \in Workspaces :
                    IF allInstalled /\ again # "Reinstall Anyway"
                    THEN Set(EndWith(Answered(again, "", <<>>), t, {}, FALSE))
                    ELSE IF action = Undefined
                    THEN Set(EndWith(Answered(again, action, <<>>), t, {}, FALSE))
                    ELSE IF action = "all"
                    THEN Set(Invoke([Answered(again, action, <<>>) EXCEPT
                                        !.tasks[t].pc = "await_install"], t,
                                    <<"hooks install", "--all">>))
                    ELSE IF ws = <<>>
                    THEN Set(EndWith(Answered(again, action, ws), t,
                                     {"No workspace folder open"}, FALSE))
                    ELSE Set(Invoke([Answered(again, action, ws) EXCEPT
                                        !.tasks[t].pc = "await_install"], t,
                                    <<"hooks install", ws[1]>>))
    /\ Frame

InstallHookDone(t) ==
    /\ Awaiting(t, "handleInstallHook", "await_install")
    /\ CanRefresh(Cur)
    /\ \E r \in ExecResults(CallOf(t).cmd) :
         IF InstallHook(r).threw
         THEN Set(EndWith(Resume(t), t, {"Failed to install hook"}, FALSE))
         ELSE Set(EndWith(Resume(t), t, {"Git hooks installed"}, TRUE))
    /\ Frame

\* handleCheckHookStatus after the list: the report, and the offer to
\* install, which runs handleInstallHook.
CheckHookListed(t) ==
    /\ Awaiting(t, "handleCheckHookStatus", "await_repos")
    /\ \E r \in ExecResults(CallOf(t).cmd) :
         LET trackedRepos == GetTrackedRepos(r).val
         IN  IF Len(trackedRepos) = 0
             THEN Set(EndWith(Resume(t), t, {"No repositories are being tracked"}, FALSE))
             ELSE IF Len(WithoutHooks(trackedRepos)) > 0
             THEN \E action \in {"Install Hooks", "Close"} :
                    IF action = "Install Hooks"
                    THEN Set(Invoke([Resume(t) EXCEPT
                                        !.tasks[t].kind = "handleInstallHook",
                                        !.tasks[t].pc = "await_repos"], t,
                                    <<"repos list --json", "">>))
                    ELSE Set(EndWith(Resume(t), t, {}, FALSE))
             ELSE Set(EndWith(Resume(t), t, {"All tracked repositories have hooks"}, FALSE))
    /\ Frame

\* The answers of a multi-select pick over repos: sub-lists in list order.
Picks(repos) ==
    {SelectSeq(repos, LAMBDA x : x.path \in P) : P \in SUBSET RepoNames}

\* handleRemoveHook after the list, up to the first cli.removeHook.
RemoveHookListed(t) ==
    /\ Awaiting(t, "handleRemoveHook", "await_repos")
    /\ \E r \in ExecResults(CallOf(t).cmd) :
         LET trackedRepos == GetTrackedRepos(r).val
             installedRepos == WithHooks(trackedRepos)
         IN  IF Len(trackedRepos) = 0
             THEN Set(EndWith(Resume(t), t, {"No repositories are being tracked"}, FALSE))
             ELSE IF Len(installedRepos) = 0
             THEN Set(EndWith(Resume(t), t, {"No git hooks are currently installed"}, FALSE))
             ELSE \E action \in {"all", "workspace", "select", Undefined},
                     ws \in Workspaces, selected \in Picks(installedRepos) :
                    CASE action = "all" ->
                           Set(Invoke([Resume(t) EXCEPT !.tasks[t].pc = "await_remove"], t,
                                      <<"hooks remove", "--all">>))
                      [] action = "workspace" /\ ws = <<>> ->
                           Set(EndWith(Resume(t), t, {"No workspace folder open"}, FALSE))
                      [] action = "workspace" /\ ws # <<>> ->
                           Set(Invoke([Resume(t) EXCEPT !.tasks[t].pc = "await_remove"], t,
                                      <<"hooks remove", ws[1]>>))
                      [] action = "select" /\ Len(selected) > 0 ->
                           Set(Invoke([Resume(t) EXCEPT
                                          !.tasks[t].pc = "await_loop",
                                          !.tasks[t].loc =
                                              [selected |-> selected, i |-> 1,
                                               successCount |-> 0, failCount |-> 0]],
                                      t, <<"hooks remove", selected[1].path>>))
                      [] OTHER -> Set(EndWith(Resume(t), t, {}, FALSE))
    /\ Frame

\* cli.removeHook() or cli.removeHook(workspace) settled.
RemoveHookDone(t) ==
    /\ Awaiting(t, "handleRemoveHook", "await_remove")
    /\ CanRefresh(Cur)
    /\ \E r \in ExecResults(CallOf(t).cmd) :
         IF RemoveHook(r).threw
         THEN Set(EndWith(Resume(t), t, {"Failed to remove hook"}, FALSE))
         ELSE Set(EndWith(Resume(t), t, {"Git hooks removed"}, TRUE))
    /\ Frame

\* A loop that would stop at the first failed removal (the code goes on).
RemoveHookLoopStops(t) ==
    /\ Awaiting(t, "handleRemoveHook", "await_loop")
    /\ CanRefresh(Cur)
    /\ \E r \in ExecResults(CallOf(t).cmd) :
         LET l == tasks[t].loc
             threw == RemoveHook(r).threw
             successCount == IF threw THEN l.successCount ELSE l.successCount + 1
             failCount == IF threw THEN l.failCount + 1 ELSE l.failCount
             l1 == [l EXCEPT !.i = @ + 1, !.successCount = successCount,
                             !.failCount = failCount]
             D1 == [Resume(t) EXCEPT
                       !.tasks[t].loc = l1,
                       !.tasks[t].errs = IF threw
                                         THEN @ \cup {"Failed to remove hook from repo"}
                                         ELSE @]
         IN  IF l.i < Len(l.selected) /\ ~threw
             THEN Set(Invoke(D1, t, <<"hooks remove", l.selected[l.i + 1].path>>))
             ELSE Set(EndWith(D1, t,
                              {IF successCount > 0 THEN "Removed hooks"
                               ELSE "Failed to remove hooks from all selected repositories"},
                              TRUE))
    /\ Frame

\* One turn of the loop over the selected repositories.
RemoveHookLoop(t) ==
    /\ Awaiting(t, "handleRemoveHook", "await_loop")
    /\ CanRefresh(Cur)
    /\ \E r \in ExecResults(CallOf(t).cmd) :
         LET l == tasks[t].loc
             threw == RemoveHook(r).threw
             successCount == IF threw THEN l.successCount ELSE l.successCount + 1
             failCount == IF threw THEN l.failCount + 1 ELSE l.failCount
             l1 == [l EXCEPT !.i = @ + 1, !.successCount = successCount,
                             !.failCount = failCount]
             D1 == [Resume(t) EXCEPT
                       !.tasks[t].loc = l1,
                       !.tasks[t].errs = IF threw
                                         THEN @ \cup {"Failed to remove hook from repo"}
                                         ELSE @]
         IN  IF l.i < Len(l.selected)
             THEN Set(Invoke(D1, t, <<"hooks remove", l.selected[l.i + 1].path>>))
             ELSE Set(EndWith(D1, t,
                              {IF successCount > 0 THEN "Removed hooks"
                               ELSE "Failed to remove hooks from all selected repositories"},
                              TRUE))
    /\ Frame

\* dashboard.focusStories(): a message to the webview, when there is one.
\* It reaches the document that is loaded when it is posted, whose script
\* (if it has one that listens) runs switchTab(message.tab).
FocusStories(D, t) ==
    IF D.panel = "open"
    THEN [D EXCEPT !.tasks[t].msgs = @ \cup {"post switchTab stories"},
                   !.html = SwitchTab(@, "stories")]
    ELSE D

StartShowStories ==
    /\ activated
    /\ FreeIds(tasks, "cmd") # {}
    /\ FreeIds(tasks, "refresh") # {}
    /\ LET t == NewId(tasks, "cmd")
       IN  Set(FocusStories(DashShow(Skip(Cur, t, t, "handleShowStories", {}), t), t))
    /\ Frame

\* handleShareProfile and handleOpenPublicProfile: status, then whoami.
ProfileHandlers == {"handleShareProfile", "handleOpenPublicProfile"}

StartProfile(kind) ==
    /\ activated
    /\ FreeIds(tasks, "cmd") # {}
    /\ LET t == NewId(tasks, "cmd")
       IN  Set(Begin(Cur, t, t, kind, "await_status", <<"status --json", "">>))
    /\ Frame

ProfileStatusDone(t) ==
    /\ tasks[t].kind \in ProfileHandlers
    /\ tasks[t].pc = "await_status"
    /\ \E r \in ExecResults(CallOf(t).cmd) :
         LET status == GetStatus(r).val
         IN  /\ lastProbe' = Probe(r)
             /\ IF status = Null \/ ~status.authenticated
                THEN Set(EndWith(Resume(t), t, {"Please login first"}, FALSE))
                ELSE Set(Invoke([Resume(t) EXCEPT !.tasks[t].pc = "await_whoami"], t,
                                <<"whoami --json", "">>))
    /\ UNCHANGED <<activated, currentState, settings>>

ProfileWhoamiDone(t) ==
    /\ tasks[t].kind \in ProfileHandlers
    /\ tasks[t].pc = "await_whoami"
    /\ \E r \in ExecResults(CallOf(t).cmd) :
         LET userInfo == Whoami(r).val
         IN  IF userInfo # Null /\ userInfo.username # ""
             THEN Set(EndWith(Resume(t), t,
                              {IF tasks[t].kind = "handleShareProfile"
                               THEN "Profile URL copied" ELSE "Profile opened"}, FALSE))
             ELSE Set(EndWith(Resume(t), t, {"No public profile URL available"}, FALSE))
    /\ Frame

\* handleConfigureLLM: the answers of its dialogs decide the keys of
\* repr.llm.* it writes with config.update.
Answers(values) == values \cup {Undefined}

\* A configuration dialog that would also switch on the dashboard at startup
\* (the code writes repr.llm.* only).
ConfigureLLMAndStartup(config, provider, endpoint, model, needsApiKey, apiKey) ==
    IF provider = Undefined THEN config
    ELSE [config EXCEPT !.provider = provider, !.showOnStartup = TRUE]

\* A cloud branch that would leave the API key in place (the code clears
\* endpoint, model and key).
ConfigureLLMKeepKey(config, provider, endpoint, model, needsApiKey, apiKey) ==
    CASE provider = Undefined -> config
      [] provider = "cloud" ->
           [config EXCEPT !.provider = "cloud", !.endpoint = "", !.model = ""]
      [] provider = "local" ->
           [config EXCEPT
              !.provider = "local",
              !.endpoint = IF endpoint # Undefined THEN endpoint ELSE @,
              !.model = IF model # Undefined THEN model ELSE @,
              !.apiKey = IF needsApiKey = "Yes" /\ apiKey # Undefined THEN apiKey
                         ELSE IF needsApiKey = "No" THEN "" ELSE @]

ConfigureLLM(config, provider, endpoint, model, needsApiKey, apiKey) ==
    CASE provider = Undefined -> config
      [] provider = "cloud" ->
           [config EXCEPT !.provider = "cloud", !.endpoint = "", !.model = "",
                          !.apiKey = ""]
      [] provider = "local" ->
           [config EXCEPT
              !.provider = "local",
              !.endpoint = IF endpoint # Undefined THEN endpoint ELSE @,
              !.model = IF model # Undefined THEN model ELSE @,
              !.apiKey = IF needsApiKey = "Yes" /\ apiKey # Undefined THEN apiKey
                         ELSE IF needsApiKey = "No" THEN "" ELSE @]

StartConfigureLLM ==
    /\ activated
    /\ FreeIds(tasks, "cmd") # {}
    /\ \E provider \in Answers({"cloud", "local"}), endpoint \in Answers({"", "e1"}),
          model \in Answers({"", "m1"}), needsApiKey \in Answers({"No", "Yes"}),
          apiKey \in Answers({"", "k1"}) :
         LET t == NewId(tasks, "cmd")
         IN  /\ settings' = ConfigureLLM(settings, provider, endpoint, model,
                                         needsApiKey, apiKey)
             /\ Set(Skip(Cur, t, t, "handleConfigureLLM",
                         IF provider = Undefined THEN {}
                         ELSE IF provider = "local"
                           THEN {"LLM configuration updated! Local endpoint will be used."}
                           ELSE {"LLM configuration updated! Cloud endpoint will be used."}))
    /\ UNCHANGED <<activated, currentState, lastProbe>>

\* handleShowCommits: the range pick, the custom input, cli.getCommits.
DaysOptions == {"3", "7", "14", "30", "-1"}
\* daysOptions: the value of each entry (the last one is 'Custom...').
DaysOf(selected) ==
    CASE selected = "3" -> 3 [] selected = "7" -> 7 [] selected = "14" -> 14
      [] selected = "30" -> 30 [] selected = "-1" -> -1

\* parseInt(value, 10) of the texts a user may type: the leading integer,
\* or NaN.
CustomTexts == {"5", "12abc", "0", "-2", "abc", ""}
ParseInt(value) ==
    CASE value = "5" -> [nan |-> FALSE, num |-> 5]
      [] value = "12abc" -> [nan |-> FALSE, num |-> 12]
      [] value = "0" -> [nan |-> FALSE, num |-> 0]
      [] value = "-2" -> [nan |-> FALSE, num |-> -2]
      [] OTHER -> [nan |-> TRUE, num |-> 0]
\* validateInput: the input box accepts only a text without a message.
ValidateInput(value) == ~(ParseInt(value).nan \/ ParseInt(value).num < 1)

\* commit.repo_name || commit.repoName || 'Unknown'
RepoOf(commit) ==
    IF commit.repo_name # "" THEN commit.repo_name
    ELSE IF commit.repoName # "" THEN commit.repoName ELSE "Unknown"

\* The names a fresh object {} inherits from Object.prototype: byRepo[name]
\* is truthy for them and has no push, so that grouping throws a TypeError.
InheritedNames == {"constructor"}
GroupThrows(commits) ==
    \E i \in 1..Len(commits) : RepoOf(commits[i]) \in InheritedNames

\* byRepo after the loop over the commits: the groups in the order of
\* Object.entries, which is the order of first appearance.
RECURSIVE GroupByRepo(_, _)
GroupByRepo(commits, byRepo) ==
    IF commits = <<>> THEN byRepo
    ELSE LET commit == Head(commits)
             repo == RepoOf(commit)
         IN  GroupByRepo(Tail(commits),
               IF \E g \in 1..Len(byRepo) : byRepo[g].name = repo
               THEN [g \in 1..Len(byRepo) |->
                       IF byRepo[g].name = repo
                       THEN [byRepo[g] EXCEPT !.commits = Append(@, commit)]
                       ELSE byRepo[g]]
               ELSE Append(byRepo, [name |-> repo, commits |-> <<commit>>]))

ShownLimit == 10
\* A document that would never have the '... and n more' line.
ShowCommitsDocumentNoMore(days, commits) ==
    [days |-> days, total |-> Len(commits),
     repos |-> LET byRepo == GroupByRepo(commits, <<>>)
               IN  [g \in 1..Len(byRepo) |->
                      [repo |-> byRepo[g].name,
                       lines |-> Slice(byRepo[g].commits, ShownLimit),
                       more |-> 0]]]

\* The lines of the document: the header with days and the count, and per
\* repository its name, the first ten commits and the line
\* '... and n more' (more = 0 when there is none).
ShowCommitsDocument(days, commits) ==
    [days |-> days, total |-> Len(commits),
     repos |-> LET byRepo == GroupByRepo(commits, <<>>)
               IN  [g \in 1..Len(byRepo) |->
                      [repo |-> byRepo[g].name,
                       lines |-> Slice(byRepo[g].commits, ShownLimit),
                       more |-> IF Len(byRepo[g].commits) > ShownLimit
                                THEN Len(byRepo[g].commits) - ShownLimit
                                ELSE 0]]]

StartShowCommits ==
    /\ activated
    /\ FreeIds(tasks, "cmd") # {}
    /\ \E selected \in Answers(DaysOptions),
          customDays \in Answers({v \in CustomTexts : ValidateInput(v)}) :
         LET t == NewId(tasks, "cmd")
             asked == selected # Undefined /\ DaysOf(selected) = -1
             answers == [selected |-> selected,
                         customDays |-> IF asked THEN customDays ELSE ""]
         IN  IF selected = Undefined \/ (asked /\ customDays = Undefined)
             THEN Set([Skip(Cur, t, t, "handleShowCommits", {})
                         EXCEPT !.tasks[t].loc = answers])
             ELSE LET days == IF asked THEN ParseInt(customDays).num
                              ELSE DaysOf(selected)
                  IN  Set([Begin(Cur, t, t, "handleShowCommits", "await_commits",
                                 <<"commits --json", ToString(days)>>)
                             EXCEPT !.tasks[t].loc =
                                 [selected |-> selected,
                                  customDays |-> answers.customDays,
                                  days |-> days]])
    /\ Frame

ShowCommitsDone(t) ==
    /\ Awaiting(t, "handleShowCommits", "await_commits")
    /\ \E r \in ExecResults(CallOf(t).cmd) :
         LET commits == GetCommits(r).val
             l == tasks[t].loc
             Returned(doc) ==
                 [Resume(t) EXCEPT !.tasks[t].loc =
                     [selected |-> l.selected, customDays |-> l.customDays,
                      days |-> l.days, commits |-> commits, doc |-> doc]]
         IN  IF Len(commits) > 0
             THEN IF GroupThrows(commits)
                  THEN Set(EndWith(Returned(<<>>), t, {"Failed to get commits"}, FALSE))
                  ELSE Set(EndWith(Returned(<<ShowCommitsDocument(l.days, commits)>>),
                                   t, {"document: Commits"}, FALSE))
             ELSE Set(EndWith(Returned(<<>>), t, {"No commits found"}, FALSE))
    /\ Frame

\* handleGenerateLocal; the answer to 'View Stories' opens the dashboard.
StartGenerateLocal ==
    /\ activated
    /\ FreeIds(tasks, "cmd") # {}
    /\ LET t == NewId(tasks, "cmd")
       IN  Set(Begin(Cur, t, t, "handleGenerateLocal", "await_generate",
                     <<"generate --json", "--local --template resume">>))
    /\ Frame

GenerateLocalDone(t) ==
    /\ Awaiting(t, "handleGenerateLocal", "await_generate")
    /\ FreeIds(tasks, "refresh") # {}
    /\ \E r \in ExecResults(CallOf(t).cmd), action \in Answers({"View Stories"}) :
         LET result == Generate(r).val
         IN  IF result # Null /\ result.generated > 0
             THEN LET D1 == EndWith(Resume(t), t, {"Generated story(ies)!"}, FALSE)
                  IN  IF action = "View Stories"
                      THEN Set(FocusStories(DashShow(D1, tasks[t].ev), t))
                      ELSE Set(D1)
             ELSE Set(EndWith(Resume(t), t, {"No stories generated"}, FALSE))
    /\ Frame

StartExportMarkdown ==
    /\ activated
    /\ FreeIds(tasks, "cmd") # {}
    /\ LET t == NewId(tasks, "cmd")
       IN  Set(Begin(Cur, t, t, "handleExportMarkdown", "await_export",
                     <<"profile export", "md">>))
    /\ Frame

ExportMarkdownDone(t) ==
    /\ Awaiting(t, "handleExportMarkdown", "await_export")
    /\ \E r \in ExecResults(CallOf(t).cmd) :
         LET exportData == ExportProfile(r).val
         IN  IF exportData # Null /\ exportData.text # ""
             THEN Set(EndWith(Resume(t), t, {"document: export"}, FALSE))
             ELSE Set(EndWith(Resume(t), t, {}, FALSE))
    /\ Frame

\* discoverAndPromptForRepos after cli.isInstalled().
DiscoverInstalledDone(t) ==
    /\ Awaiting(t, "discoverAndPromptForRepos", "await_installed")
    /\ \E r \in ExecResults(CallOf(t).cmd), ws \in Workspaces :
         IF ~IsInstalled(r).val \/ ws = <<>>
         THEN Set(EndWith(Resume(t), t, {}, FALSE))
         ELSE Set(Invoke([Resume(t) EXCEPT !.tasks[t].pc = "await_repos",
                                           !.tasks[t].loc =
                                               [ws |-> ws, installed |-> r]], t,
                         <<"repos list --json", "">>))
    /\ Frame

\* ... after cli.getTrackedRepos(): the .git check and the prompt.  The task
\* keeps what it saw and whether it showed the prompt.
DiscoverListed(t) ==
    /\ Awaiting(t, "discoverAndPromptForRepos", "await_repos")
    /\ \E r \in ExecResults(CallOf(t).cmd), git \in {"directory", "file", "missing"},
          action \in Answers({"Yes", "Not Now", "Don't Ask Again"}) :
         LET prompted == ~(Len(GetTrackedRepos(r).val) > 0 \/ git # "directory")
             D1 == [Resume(t) EXCEPT
                      !.tasks[t].loc =
                          [ws |-> @.ws, installed |-> @.installed, listed |-> r,
                           git |-> git, prompted |-> prompted,
                           action |-> IF prompted THEN action ELSE ""]]
         IN  IF ~prompted
             THEN Set(EndWith(D1, t, {}, FALSE)) /\ UNCHANGED settings
             ELSE IF action = "Yes"
             THEN /\ Set(Invoke([D1 EXCEPT !.tasks[t].pc = "await_add"], t,
                                <<"repos add", tasks[t].loc.ws[1]>>))
                  /\ UNCHANGED settings
             ELSE /\ Set(EndWith(D1, t, {}, FALSE))
                  /\ settings' = IF action = "Don't Ask Again"
                                 THEN [settings EXCEPT !.promptForNewRepos = FALSE]
                                 ELSE settings
    /\ UNCHANGED <<activated, currentState, lastProbe>>

DiscoverAddDone(t) ==
    /\ Awaiting(t, "discoverAndPromptForRepos", "await_add")
    /\ CanRefresh(Cur)
    /\ \E r \in ExecResults(CallOf(t).cmd) :
         IF AddRepo(r).threw
         THEN Set(EndWith(Resume(t), t, {"Failed to add repository"}, FALSE))
         ELSE Set(EndWith(Resume(t), t, {"Added to tracked repositories"}, TRUE))
    /\ Frame

(***************************************************************************)
(* ReprDashboard.handleMessage (dashboard.ts): one task per message of the *)
(* webview.                                                                *)
(***************************************************************************)
\* The cases that await one CLI call, and the cases that await none.
CallCommands ==
    {"loadCommits", "loadAllCommits", "generateFromCommits", "loadStories",
     "generateStories", "exportProfile", "push", "pull", "removeRepo",
     "installHook", "removeHook", "viewMode"}
PlainCommands == {"copyToClipboard", "viewStory", "featureStory", "hideStory"}
ForwardCommands == {"syncCloud", "login", "addRepo"}
RepoCommands == {"removeRepo", "installHook", "removeHook"}
MessageCommands ==
    {"refresh"} \cup CallCommands \cup PlainCommands \cup ForwardCommands
Messages ==
    {[command |-> c, repo |-> rp] :
        c \in MessageCommands, rp \in {Undefined, "r1"}}

Given(x) == IF x = Undefined THEN "" ELSE x

\* The command line of the case's CLI call.
MsgCmd(m) ==
    CASE m.command = "loadCommits" -> <<"commits --json", "3">>
      [] m.command = "loadAllCommits" -> <<"commits --json", "30">>
      [] m.command \in {"generateFromCommits", "generateStories"} ->
           <<"generate --json", Given(m.repo)>>
      [] m.command = "loadStories" -> <<"stories --json", Given(m.repo)>>
      [] m.command = "exportProfile" -> <<"profile export", "md">>
      [] m.command = "push" -> <<"push --json", "">>
      [] m.command = "pull" -> <<"pull --json", "">>
      [] m.command = "removeRepo" -> <<"repos remove", m.repo>>
      [] m.command = "installHook" -> <<"hooks install", m.repo>>
      [] m.command = "removeHook" -> <<"hooks remove", m.repo>>
      [] m.command = "viewMode" -> <<"mode --json", "">>

\* What the case does once its call has settled with r: whether the
\* handler's promise rejects, the notifications and webview posts, whether
\* refresh is called, the [ERROR] lines.
Outcome(threw, msgs, refresh, log) ==
    [threw |-> threw, msgs |-> msgs, refresh |-> refresh, log |-> log]
Post(open, name) == IF open THEN {name} ELSE {}

MsgOutcome(m, r, open) ==
    CASE m.command = "loadCommits" ->
           Outcome(FALSE, Post(open, "post updateCommits"), FALSE, GetCommits(r).log)
      [] m.command = "loadAllCommits" ->
           Outcome(FALSE, Post(open, "post updateAllCommits"), FALSE, GetCommits(r).log)
      [] m.command \in {"generateFromCommits", "generateStories"} ->
           LET result == Generate(r)
           IN  IF result.val # Null /\ result.val.generated > 0
               THEN Outcome(FALSE, {"Generated story(ies)!"}, TRUE, result.log)
               ELSE Outcome(FALSE, {"No stories generated"}, FALSE, result.log)
      [] m.command = "loadStories" ->
           Outcome(FALSE, Post(open, "post updateStories"), FALSE, GetStories(r, 50).log)
      [] m.command = "exportProfile" ->
           LET exportData == ExportProfile(r)
           IN  Outcome(FALSE,
                       IF exportData.val # Null /\ exportData.val.text # ""
                       THEN {"document: export"} ELSE {},
                       FALSE, exportData.log)
      [] m.command = "push" ->
           IF Push(r).val # Null
           THEN Outcome(FALSE, {"Successfully pushed to cloud"}, TRUE, Push(r).log)
           ELSE Outcome(FALSE, {}, FALSE, Push(r).log)
      [] m.command = "pull" ->
           IF Pull(r).val # Null
           THEN Outcome(FALSE, {"Successfully pulled from cloud"}, TRUE, Pull(r).log)
           ELSE Outcome(FALSE, {}, FALSE, Pull(r).log)
      [] m.command = "removeRepo" ->
           IF RemoveRepo(r).threw
           THEN Outcome(TRUE, {}, FALSE, RemoveRepo(r).log)
           ELSE Outcome(FALSE, {}, TRUE, {})
      [] m.command = "installHook" ->
           IF InstallHook(r).threw
           THEN Outcome(FALSE, {"Installing hook", "Failed to install hook"}, FALSE,
                        InstallHook(r).log)
           ELSE Outcome(FALSE, {"Installing hook", "Hook installed successfully!"},
                        TRUE, {})
      [] m.command = "removeHook" ->
           IF RemoveHook(r).threw
           THEN Outcome(FALSE, {"Failed to remove hook"}, FALSE, RemoveHook(r).log)
           ELSE Outcome(FALSE, {"Hook removed successfully!"}, TRUE, {})
      [] m.command = "viewMode" ->
           Outcome(FALSE, IF GetMode(r).val # Null THEN {"Current Mode"} ELSE {},
                   FALSE, GetMode(r).log)

\* commits.sort by date, most recent first: the sort is stable, so commits
\* of one date keep their order.
RECURSIVE SortByDate(_)
SortByDate(commits) ==
    IF commits = <<>> THEN <<>>
    ELSE LET n == Len(commits)
             sorted == SortByDate(SubSeq(commits, 1, n - 1))
             k == Cardinality({i \in 1..(n - 1) : sorted[i].date >= commits[n].date})
         IN  SubSeq(sorted, 1, k) \o <<commits[n]>> \o SubSeq(sorted, k + 1, n - 1)

HighlightLimit == 5
\* workSummary (all = FALSE) and allWorkSummary (all = TRUE): the groups
\* of the sorted commits with their counts and highlights.
WorkSummary(commits, all) ==
    LET sortedCommits == SortByDate(commits)
        commitsByRepo == GroupByRepo(sortedCommits, <<>>)
        Highlight(c) == [date |-> c.date, hash |-> c.sha]
    IN  [repos |->
           [g \in 1..Len(commitsByRepo) |->
              LET repoCommits == commitsByRepo[g].commits
                  shown == IF all THEN repoCommits
                           ELSE Slice(repoCommits, HighlightLimit)
              IN  [name |-> commitsByRepo[g].name,
                   commits |-> Len(repoCommits),
                   highlights |-> [i \in 1..Len(shown) |-> Highlight(shown[i])]]],
         total_commits |-> Len(sortedCommits)]

\* The data of the reply to loadCommits and loadAllCommits: the empty
\* summary for what is no array and from the catch block, where a throwing
\* grouping ends.
CommitsReply(r, all) ==
    LET commits == GetCommits(r)
    IN  IF ~commits.isArray \/ GroupThrows(commits.val)
        THEN [repos |-> <<>>, total_commits |-> 0]
        ELSE WorkSummary(commits.val, all)

\* The messages the case posts to the webview for a settled call, in order.
Replies(m, r) ==
    CASE m.command = "loadCommits" ->
           <<[command |-> "updateCommits", data |-> CommitsReply(r, FALSE)]>>
      [] m.command = "loadAllCommits" ->
           <<[command |-> "updateAllCommits", data |-> CommitsReply(r, TRUE)]>>
      [] m.command = "loadStories" ->
           <<[command |-> "updateStories",
              stories |-> IF GetStories(r, 50).val = Null THEN <<>>
                          ELSE GetStories(r, 50).val.stories]>>
      [] OTHER -> <<>>

\* A handler that would reply only to calls that succeeded.
MsgPostsOnSuccess(m, r, open) == IF open /\ r.ok THEN Replies(m, r) ELSE <<>>

\* this.panel?.webview.postMessage: nothing is posted without a panel.
MsgPosts(m, r, open) == IF open THEN Replies(m, r) ELSE <<>>

\* The notification or post of a case that calls nothing.
PlainMessage(m, open) ==
    CASE m.command = "copyToClipboard" -> {"Copied to clipboard"}
      [] m.command = "viewStory" -> Post(open, "post showStoryPreview")
      [] m.command = "featureStory" -> {"Featured story"}
      [] m.command = "hideStory" -> {"Hidden story"}
      [] OTHER -> {}

\* handleMessage up to its first await.
ReceiveMessage(m) ==
    /\ activated
    /\ panel = "open"
    /\ FreeIds(tasks, "msg") # {}
    /\ FreeIds(tasks, "refresh") # {}
    /\ FreeIds(tasks, "sync") # {}
    /\ FreeIds(tasks, "login") # {}
    /\ FreeIds(tasks, "cmd") # {}
    /\ LET t == NewId(tasks, "msg")
           D0 == [Cur EXCEPT !.tasks[t] =
                      [Task("handleMessage", "start", t) EXCEPT !.loc = [message |-> m]]]
           Await(pc, child) ==
               [D0 EXCEPT !.tasks[t].pc = pc,
                          !.tasks[t].loc = [message |-> m, child |-> child]]
       IN  CASE m.command = "refresh" ->
                  /\ Set(DashRefresh(Await("await_refresh", NewId(tasks, "refresh")), t))
                  /\ UNCHANGED currentState
             [] m.command \in CallCommands
                  /\ (m.command \in RepoCommands => m.repo # Undefined) ->
                  /\ Set(Invoke([D0 EXCEPT !.tasks[t].pc = "await_call"], t, MsgCmd(m)))
                  /\ UNCHANGED currentState
             [] m.command = "syncCloud" ->
                  /\ Set(HandleSync(Await("await_command", NewId(tasks, "sync")), t))
                  /\ currentState' = "analyzing"
             [] m.command = "login" ->
                  /\ Set(HandleLogin(Await("await_command", NewId(tasks, "login")), t))
                  /\ UNCHANGED currentState
             [] m.command = "addRepo" ->
                  /\ \E folder \in Answers(RepoNames) :
                       Set(HandleAddRepo(Await("await_command", NewId(tasks, "cmd")),
                                         NewId(tasks, "cmd"), t, folder))
                  /\ UNCHANGED currentState
             [] OTHER ->
                  /\ Set([D0 EXCEPT !.tasks[t] = Finish(@, PlainMessage(m, TRUE))])
                  /\ UNCHANGED currentState
    /\ UNCHANGED <<activated, settings, lastProbe>>

\* The case's CLI call has settled.
MsgCallDone(t) ==
    /\ Awaiting(t, "handleMessage", "await_call")
    /\ CanRefresh(Cur)
    /\ \E r \in ExecResults(CallOf(t).cmd) :
         LET o == MsgOutcome(tasks[t].loc.message, r, panel = "open")
             D1 == [Resume(t) EXCEPT
                       !.tasks[t].pc = IF o.threw THEN "rejected" ELSE "done",
                       !.tasks[t].msgs = @ \cup o.msgs,
                       !.tasks[t].errs = @ \cup o.log,
                       !.tasks[t].loc =
                           [message |-> tasks[t].loc.message, result |-> r,
                            open |-> panel = "open",
                            posts |-> MsgPosts(tasks[t].loc.message, r,
                                               panel = "open")]]
         IN  IF o.refresh THEN Set(DashRefresh(D1, tasks[t].ev)) ELSE Set(D1)
    /\ Frame

\* 'await this.refresh()' has settled as the refresh did.
MsgRefreshDone(t) ==
    /\ Awaiting(t, "handleMessage", "await_refresh")
    /\ tasks[tasks[t].loc.child].pc \in {"done", "rejected"}
    /\ Set([Cur EXCEPT !.tasks[t].pc = tasks[tasks[t].loc.child].pc])
    /\ Frame

\* 'await executeCommand(..)' has settled: the command's handler returned.
MsgCommandDone(t) ==
    /\ Awaiting(t, "handleMessage", "await_command")
    /\ tasks[tasks[t].loc.child].kind # "loginCheck"
          => tasks[tasks[t].loc.child].pc = "done"
    /\ Set([Cur EXCEPT !.tasks[t].pc = "done"])
    /\ Frame

(***************************************************************************)
(* The status bar under concurrent handlers: activation, repr.sync,        *)
(* repr.login and repr.logout, with the dashboard closed.                  *)
(***************************************************************************)
Settings0 ==
    [promptForNewRepos |-> FALSE, showOnStartup |-> FALSE,
     provider |-> "cloud", endpoint |-> "", model |-> "", apiKey |-> ""]

Init ==
    /\ activated = FALSE
    /\ currentState = "synced"                  \* the field's initialiser
    /\ tasks = [i \in TaskIds |-> Free]
    /\ calls = {}
    /\ panel = "none"
    /\ panels = 0
    /\ html = Page("none")
    /\ settings = Settings0
    /\ lastProbe = "none"
    /\ issued = [i \in TaskIds |-> <<>>]

Next ==
    \/ Activate
    \/ StartSync
    \/ StartLogin
    \/ StartLogout
    \/ \E t \in TaskIds :
         \/ UpdateSyncTimeDone(t)
         \/ CheckInstalledDone(t)
         \/ CheckWarningDone(t)
         \/ CheckStatusDone(t)
         \/ SyncDone(t)
         \/ LoginDone(t)
         \/ LoginTimer(t)
         \/ LoginCheckDone(t)
         \/ LogoutDone(t)
         \/ DiscoverTimer(t)

Spec == Init /\ [][Next]_vars

(***************************************************************************)
(* The dashboard alone: the panel is opened, refreshed and closed, one     *)
(* refresh at a time, after a completed activation.                        *)
(***************************************************************************)
InFlight(t) == {c \in calls : c.task = t}
NothingStarted == \A t \in TaskIds : tasks[t].kind = "free"

\* The repr.openDashboard command: dashboard.show().
OpenDashboard ==
    /\ activated
    /\ FreeIds(tasks, "refresh") # {}
    /\ Set(DashShow(Cur, NewId(tasks, "refresh")))
    /\ UNCHANGED <<activated, currentState, settings, lastProbe>>

\* The repr.refreshDashboard command: await dashboard.refresh().
RefreshDashboard ==
    /\ activated
    /\ panel = "open"
    /\ FreeIds(tasks, "refresh") # {}
    /\ Set(DashRefresh(Cur, NewId(tasks, "refresh")))
    /\ UNCHANGED <<activated, currentState, settings, lastProbe>>

\* After a completed activation: the dashboard is closed, or it is open and
\* shows the page of a CLI that was not installed when it was opened.
InitIdle ==
    /\ activated = TRUE
    /\ currentState = "synced"
    /\ tasks = [i \in TaskIds |-> Free]
    /\ calls = {}
    /\ \/ panel = "none" /\ panels = 0 /\ html = Page("none")
       \/ panel = "open" /\ panels = 1 /\ html = Page("notInstalled")
    /\ settings = Settings0
    /\ lastProbe = "ok"
    /\ issued = [i \in TaskIds |-> <<>>]

OneOpenDashboard == NothingStarted /\ OpenDashboard
OneRefreshDashboard == NothingStarted /\ RefreshDashboard

NextRefresh ==
    \/ OneOpenDashboard
    \/ OneRefreshDashboard
    \/ PanelDispose
    \/ \E t \in TaskIds :
         \/ RefreshInstalledDone(t)
         \/ RefreshTimeout(t)
         \/ \E k \in DataSlots : RefreshDataDone(t, k)

SpecRefresh == InitIdle /\ [][NextRefresh]_vars

\* The same with time passing: a timer that was set does fire.  Nothing
\* makes a subprocess exit, so the completion of a call is not fair.
TimersFired(t) ==
    IF tasks[t].kind = "refresh" /\ tasks[t].loc # <<>> THEN tasks[t].loc.timers
    ELSE 0
SpecRefreshTimers ==
    SpecRefresh /\ \A t \in TaskIds : WF_TimersFired(t)(RefreshTimeout(t))

(***************************************************************************)
(* Overlapping refreshes: the dashboard is opened, refreshed and closed in *)
(* any order while earlier refreshes are still running.  The CLI is        *)
(* removed while this happens: once one refresh has found it, the probes   *)
(* of the others do not find it.                                           *)
(***************************************************************************)
\* The refreshes that have found the CLI installed.
Found == {t \in TaskIds : tasks[t].kind = "refresh" /\ tasks[t].loc # <<>>}

ProbeDone(t) ==
    /\ RefreshInstalledDone(t)
    /\ Found # {} => tasks'[t].pc # "await_data"

NextOverlap ==
    \/ OpenDashboard
    \/ RefreshDashboard
    \/ PanelDispose
    \/ \E t \in TaskIds :
         \/ ProbeDone(t)
         \/ \E k \in DataSlots : RefreshDataDone(t, k)

SpecOverlap == InitIdle /\ [][NextOverlap]_vars

(***************************************************************************)
(* The activation alone: the status bar's constructor, the installation    *)
(* check and the discovery timer, with no command.                         *)
(***************************************************************************)
InitActivate ==
    /\ activated = FALSE
    /\ currentState = "synced"
    /\ tasks = [i \in TaskIds |-> Free]
    /\ calls = {}
    /\ panel = "none"
    /\ panels = 0
    /\ html = Page("none")
    /\ \E b \in BOOLEAN : settings = [Settings0 EXCEPT !.promptForNewRepos = b]
    /\ lastProbe = "none"
    /\ issued = [i \in TaskIds |-> <<>>]

ActivationStep(t) ==
    \/ UpdateSyncTimeDone(t)
    \/ CheckInstalledDone(t)
    \/ CheckWarningDone(t)
    \/ CheckStatusDone(t)
    \/ DiscoverTimer(t)
    \/ DiscoverInstalledDone(t)
    \/ DiscoverListed(t)
    \/ DiscoverAddDone(t)

NextActivate ==
    \/ Activate
    \/ \E t \in TaskIds : ActivationStep(t)

SpecActivate == InitActivate /\ [][NextActivate]_vars

(***************************************************************************)
(* Discovery over several runs: the window may be reloaded at any time,    *)
(* which ends the extension and starts it again with the settings kept.    *)
(***************************************************************************)
Reload ==
    /\ activated
    /\ activated' = FALSE
    /\ currentState' = "synced"
    /\ tasks' = [i \in TaskIds |-> Free]
    /\ calls' = {}
    /\ panel' = "none"
    /\ panels' = 0
    /\ html' = Page("none")
    /\ lastProbe' = "none"
    /\ issued' = [i \in TaskIds |-> <<>>]
    /\ UNCHANGED settings

NextDiscover ==
    \/ Activate
    \/ \E t \in TaskIds : ActivationStep(t)
    \/ Reload

SpecDiscover == InitActivate /\ [][NextDiscover]_vars

(***************************************************************************)
(* One event at a time: from an idle extension one command, one webview    *)
(* message or the activation runs to its end, with the refresh it causes.  *)
(***************************************************************************)
InitEvents ==
    \/ InitActivate
    \/ /\ activated = TRUE
       /\ currentState = "synced"
       /\ tasks = [i \in TaskIds |-> Free]
       /\ calls = {}
       /\ \/ panel = "none" /\ panels = 0 /\ html = Page("none")
          \/ panel = "open" /\ panels = 1 /\ html = Page("notInstalled")
       /\ settings = Settings0
       /\ lastProbe = "ok"
       /\ issued = [i \in TaskIds |-> <<>>]

Command ==
    \/ OpenDashboard
    \/ RefreshDashboard
    \/ StartSync
    \/ StartLogin
    \/ StartLogout
    \/ StartAddCurrentRepo
    \/ StartAddRepo
    \/ \E kind \in ListingHandlers : StartListing(kind)
    \/ StartShowStories
    \/ \E kind \in ProfileHandlers : StartProfile(kind)
    \/ StartConfigureLLM
    \/ StartShowCommits
    \/ StartGenerateLocal
    \/ StartExportMarkdown

HandlerStep(t) ==
    \/ SyncDone(t)
    \/ LoginDone(t)
    \/ LoginTimer(t)
    \/ LoginCheckDone(t)
    \/ LogoutDone(t)
    \/ AddRepoDone(t)
    \/ RemoveRepoListed(t)
    \/ RemoveRepoDone(t)
    \/ ListReposListed(t)
    \/ InstallHookListed(t)
    \/ InstallHookDone(t)
    \/ CheckHookListed(t)
    \/ RemoveHookListed(t)
    \/ RemoveHookDone(t)
    \/ RemoveHookLoop(t)
    \/ ProfileStatusDone(t)
    \/ ProfileWhoamiDone(t)
    \/ ShowCommitsDone(t)
    \/ GenerateLocalDone(t)
    \/ ExportMarkdownDone(t)
    \/ MsgCallDone(t)
    \/ MsgRefreshDone(t)
    \/ MsgCommandDone(t)

RefreshStep(t) ==
    \/ RefreshInstalledDone(t)
    \/ \E k \in DataSlots : RefreshDataDone(t, k)

NextEvents ==
    \/ Activate
    \/ NothingStarted /\ Command
    \/ \E m \in Messages : NothingStarted /\ ReceiveMessage(m)
    \/ \E t \in TaskIds : ActivationStep(t) \/ HandlerStep(t) \/ RefreshStep(t)

SpecEvents == InitEvents /\ [][NextEvents]_vars

(***************************************************************************)
(* The wrappers of ReprCLI alone: a caller awaits one method of the class. *)
(***************************************************************************)
NullMethods ==
    {"getStatus", "getStories", "getProfiles", "getConfig", "sync", "whoami",
     "generateStory", "getMode", "generate", "exportProfile", "push", "pull"}
ListMethods == {"getTrackedRepos", "getHookStatus", "getCommits"}
VoidMethods ==
    {"addRepo", "removeRepo", "installHook", "removeHook", "login", "logout"}
Methods == NullMethods \cup ListMethods \cup VoidMethods

\* The command line the method runs.
MethodCmd(m) ==
    CASE m = "getStatus" -> <<"status --json", "">>
      [] m = "getStories" -> <<"stories --json", "">>
      [] m = "getProfiles" -> <<"profiles --json", "">>
      [] m = "getConfig" -> <<"config --json", "">>
      [] m = "sync" -> <<"sync --json", "">>
      [] m = "whoami" -> <<"whoami --json", "">>
      [] m = "generateStory" -> <<"story --json", "c1">>
      [] m = "getMode" -> <<"mode --json", "">>
      [] m = "generate" -> <<"generate --json", "">>
      [] m = "exportProfile" -> <<"profile export", "md">>
      [] m = "push" -> <<"push --json", "">>
      [] m = "pull" -> <<"pull --json", "">>
      [] m = "getTrackedRepos" -> <<"repos list --json", "">>
      [] m = "getHookStatus" -> <<"hooks status", "">>
      [] m = "getCommits" -> <<"commits --json", "">>
      [] m = "addRepo" -> <<"repos add", "r1">>
      [] m = "removeRepo" -> <<"repos remove", "r1">>
      [] m = "installHook" -> <<"hooks install", "--all">>
      [] m = "removeHook" -> <<"hooks remove", "--all">>
      [] m = "login" -> <<"login", "">>
      [] m = "logout" -> <<"logout", "">>

\* The method's outcome when its subprocess settles with r.
Method(m, r) ==
    CASE m = "getStatus" -> GetStatus(r)
      [] m = "getStories" -> GetStories(r, 0)
      [] m = "getProfiles" -> GetProfiles(r)
      [] m = "getConfig" -> GetConfig(r)
      [] m = "sync" -> CliSync(r)
      [] m = "whoami" -> Whoami(r)
      [] m = "generateStory" -> GenerateStory(r)
      [] m = "getMode" -> GetMode(r)
      [] m = "generate" -> Generate(r)
      [] m = "exportProfile" -> ExportProfile(r)
      [] m = "push" -> Push(r)
      [] m = "pull" -> Pull(r)
      [] m = "getTrackedRepos" -> GetTrackedRepos(r)
      [] m = "getHookStatus" -> GetHookStatus(r)
      [] m = "getCommits" -> GetCommits(r)
      [] m = "addRepo" -> AddRepo(r)
      [] m = "removeRepo" -> RemoveRepo(r)
      [] m = "installHook" -> InstallHook(r)
      [] m = "removeHook" -> RemoveHook(r)
      [] m = "login" -> CliLogin(r)
      [] m = "logout" -> CliLogout(r)

CallMethod(m) ==
    /\ NothingStarted
    /\ LET t == NewId(tasks, "cmd")
       IN  Set(Invoke([Cur EXCEPT !.tasks[t] =
                          [Task("method", "await_method", t) EXCEPT
                              !.loc = [method |-> m]]],
                      t, MethodCmd(m)))
    /\ Frame

\* The awaited method settles: the caller sees a value or an exception.
MethodDone(t) ==
    /\ Awaiting(t, "method", "await_method")
    /\ \E r \in ExecResults(CallOf(t).cmd) :
         LET out == Method(tasks[t].loc.method, r)
         IN  Set([Resume(t) EXCEPT
                    !.tasks[t].pc = IF out.threw THEN "rejected" ELSE "done",
                    !.tasks[t].errs = out.log,
                    !.tasks[t].loc = [method |-> tasks[t].loc.method,
                                      result |-> r, out |-> out,
                                      exec |-> ExecCommand(r)]])
    /\ Frame

NextWrap ==
    \/ \E m \in Methods : CallMethod(m)
    \/ \E t \in TaskIds : MethodDone(t)

SpecWrap == InitIdle /\ [][NextWrap]_vars

(***************************************************************************)
(* getStories with options: a caller passes any of repo, since, limit and  *)
(* technologies (a missing text is "", a missing limit is <<>>).           *)
(***************************************************************************)
MaxLimit == 3
StoriesOptions ==
    [repo : {"", "r1"}, since : {"", "1 week ago"}, technologies : {"", "ts"},
     limit : {<<>>} \cup {<<n>> : n \in 0..MaxLimit}]

\* args: 'stories --json', with --repo when options.repo is set.
StoriesArgs(options) == <<"stories --json", options.repo>>

\* options.limit ? ... : ...: undefined and 0 are falsy.
LimitOf(options) == IF options.limit = <<>> THEN 0 ELSE options.limit[1]

CallGetStories(options) ==
    /\ NothingStarted
    /\ LET t == NewId(tasks, "cmd")
       IN  Set(Invoke([Cur EXCEPT !.tasks[t] =
                          [Task("getStories", "await_exec", t) EXCEPT
                              !.loc = [options |-> options]]],
                      t, StoriesArgs(options)))
    /\ Frame

GetStoriesDone(t) ==
    /\ Awaiting(t, "getStories", "await_exec")
    /\ \E r \in ExecResults(CallOf(t).cmd) :
         LET out == GetStories(r, LimitOf(tasks[t].loc.options))
         IN  Set([Resume(t) EXCEPT
                    !.tasks[t].pc = "done",
                    !.tasks[t].errs = out.log,
                    !.tasks[t].loc = [options |-> tasks[t].loc.options,
                                      cmd |-> CallOf(t).cmd,
                                      result |-> r, out |-> out]])
    /\ Frame

NextGetStories ==
    \/ \E options \in StoriesOptions : CallGetStories(options)
    \/ \E t \in TaskIds : GetStoriesDone(t)

SpecGetStories == InitIdle /\ [][NextGetStories]_vars

(***************************************************************************)
(* Login: the command runs with the status bar in any state and the panel  *)
(* closed or open, and a logout may run beside it; the timer handleLogin   *)
(* has set does fire.  The refreshes the handlers call are started and     *)
(* left running.                                                           *)
(***************************************************************************)
StatusBarState ==
    {"notInstalled", "notAuthenticated", "synced", "pendingChanges", "analyzing",
     "syncing", "error"}

InitLogin ==
    /\ activated = TRUE
    /\ currentState \in StatusBarState
    /\ tasks = [i \in TaskIds |-> Free]
    /\ calls = {}
    /\ \/ panel = "none" /\ panels = 0 /\ html = Page("none")
       \/ panel = "open" /\ panels = 1 /\ html = Page("notInstalled")
    /\ settings = Settings0
    /\ lastProbe = "ok"
    /\ issued = [i \in TaskIds |-> <<>>]

NextLogin ==
    \/ StartLogin
    \/ \E t \in TaskIds : LoginDone(t)
    \/ \E t \in TaskIds : LoginTimer(t)
    \/ \E t \in TaskIds : LoginCheckDone(t)
    \/ StartLogout
    \/ \E t \in TaskIds : LogoutDone(t)

SpecLogin ==
    /\ InitLogin
    /\ [][NextLogin]_vars
    /\ \A t \in TaskIds : WF_<<tasks[t].pc>>(LoginTimer(t))

(***************************************************************************)
(* The LLM settings: with any settings the user has written, the           *)
(* Configure LLM command and syncs run in any order.                       *)
(***************************************************************************)
LLMSettings ==
    {[Settings0 EXCEPT !.provider = p, !.endpoint = e, !.model = m,
                       !.apiKey = k] :
       p \in {"cloud", "local"}, e \in {"", "e1"}, m \in {"", "m1"},
       k \in {"", "k1"}}

InitLLM ==
    /\ activated = TRUE
    /\ currentState = "synced"
    /\ tasks = [i \in TaskIds |-> Free]
    /\ calls = {}
    /\ panel = "none"
    /\ panels = 0
    /\ html = Page("none")
    /\ settings \in LLMSettings
    /\ lastProbe = "ok"
    /\ issued = [i \in TaskIds |-> <<>>]

NextLLM ==
    \/ StartConfigureLLM
    \/ StartSync
    \/ \E t \in TaskIds : SyncDone(t)

SpecLLM == InitLLM /\ [][NextLLM]_vars

(***************************************************************************)
(* Show Stories: the command runs once, with the panel closed or open,     *)
(* and its refresh runs to the end.                                        *)
(***************************************************************************)
InitStories ==
    /\ activated = TRUE
    /\ currentState = "synced"
    /\ tasks = [i \in TaskIds |-> Free]
    /\ calls = {}
    /\ \/ panel = "none" /\ panels = 0 /\ html = Page("none")
       \/ panel = "open" /\ panels = 1 /\ html = Page("notInstalled")
       \/ panel = "open" /\ panels = 1 /\ html = GetHtmlContent(Null, Null, <<>>, <<>>, 0)
    /\ settings = Settings0
    /\ lastProbe = "ok"
    /\ issued = [i \in TaskIds |-> <<>>]

NextStories ==
    \/ NothingStarted /\ StartShowStories
    \/ \E t \in TaskIds : RefreshStep(t)

SpecStories == InitStories /\ [][NextStories]_vars

(***************************************************************************)
(* The data requests of the webview: one load message is handled while the *)
(* user may close the panel; the subprocess of its call does exit.         *)
(***************************************************************************)
LoadMessages ==
    {m \in Messages : m.command \in {"loadCommits", "loadAllCommits", "loadStories"}}

NextLoads ==
    \/ \E m \in LoadMessages : NothingStarted /\ ReceiveMessage(m)
    \/ \E t \in TaskIds : MsgCallDone(t)
    \/ PanelDispose

\* The panel is open and shows a content page.
InitLoads ==
    /\ activated = TRUE
    /\ currentState = "synced"
    /\ tasks = [i \in TaskIds |-> Free]
    /\ calls = {}
    /\ panel = "open"
    /\ panels = 1
    /\ html = GetHtmlContent(Null, Null, <<>>, <<>>, 0)
    /\ settings = Settings0
    /\ lastProbe = "ok"
    /\ issued = [i \in TaskIds |-> <<>>]

SpecLoads ==
    /\ InitLoads
    /\ [][NextLoads]_vars
    /\ \A t \in TaskIds : WF_<<tasks[t].pc>>(MsgCallDone(t))

(***************************************************************************)
(* Properties of the status bar.                                           *)
(***************************************************************************)
SyncTasks == {t \in TaskIds : tasks[t].kind = "handleSync"}
SyncRunning == {t \in SyncTasks : tasks[t].pc = "await_sync"}
NoCommandRun ==
    \A t \in TaskIds : t[1] \in {"sync", "login", "logout"} => tasks[t].kind = "free"

\* C2 (as claimed): whenever the status bar is 'synced' after activation, a
\* CLI status or sync invocation has completed and the most recently
\* completed one succeeded.
C2_SyncedReflectsLastSuccess ==
    (activated /\ currentState = "synced") => lastProbe = "ok"

\* C3 (as claimed): a run of handleSync whose CLI sync invocation failed
\* finishes with the status bar 'error' and the 'Sync failed' notification.
C3_FailedSyncShowsError ==
    [][\A t \in TaskIds :
          (tasks[t].kind = "handleSync" /\ tasks[t].pc = "await_sync"
             /\ tasks'[t].pc = "done" /\ tasks'[t].loc = "fail")
          => (currentState' = "error" /\ "Sync failed" \in tasks'[t].msgs)]_vars

\* C4 (as claimed): while the CLI sync invocation of some handleSync is in
\* flight the status bar is 'analyzing', and it is not 'analyzing' once every
\* started handleSync has completed.
C4_AnalyzingWhileSyncRuns ==
    /\ SyncRunning # {} => currentState = "analyzing"
    /\ SyncRunning = {} => currentState # "analyzing"

\* What the claim C5 reads off the two CLI responses seen by the check.
CliInstalled(r) == r.ok /\ r.stdout.text \notin {"", " "}
ReportsAuthenticated(r) == r.ok /\ r.stdout.json /\ r.stdout.val.authenticated
ReportsUnauthenticated(r) == r.ok /\ r.stdout.json /\ ~r.stdout.val.authenticated
CheckDone ==
    /\ tasks[<<"checkCLI", 1>>].pc \in {"done", "await_warning"}
    /\ NoCommandRun
CheckSaw == tasks[<<"checkCLI", 1>>].loc

\* C5 (as claimed): after the activation check, 'notAuthenticated' is shown
\* exactly when the CLI is installed and reports the user unauthenticated.
C5_Original ==
    CheckDone =>
       /\ currentState = "notInstalled" <=> ~CliInstalled(CheckSaw[1])
       /\ currentState = "synced" <=>
             (CliInstalled(CheckSaw[1]) /\ ReportsAuthenticated(CheckSaw[2]))
       /\ currentState = "notAuthenticated" <=>
             (CliInstalled(CheckSaw[1]) /\ ReportsUnauthenticated(CheckSaw[2]))

(***************************************************************************)
(* Properties of the invocations in flight.                                *)
(***************************************************************************)
\* C1 (as claimed): at most one CLI invocation is in flight at any moment.
C1_Original == Cardinality(calls) <= 1

\* C1 (amended): every task awaits its invocations one at a time, except
\* dashboard.refresh, which awaits its installation probe alone and then has
\* its five data calls in flight together, one per call of the Promise.all.
C1_OnePerTaskFivePerRefresh ==
    \A t \in TaskIds :
       IF tasks[t].kind = "refresh"
       THEN /\ tasks[t].pc = "await_installed" =>
                 \E c \in calls : InFlight(t) = {c} /\ c.cmd[1] = "--version"
            /\ tasks[t].pc # "await_installed" =>
                 /\ \A c \in InFlight(t) :
                       c.slot \in DataSlots /\ c.cmd = DataCmds[c.slot]
                 /\ \A c, d \in InFlight(t) : c.slot = d.slot => c = d
       ELSE Cardinality(InFlight(t)) <= 1

\* C1 witness: the five data calls of one refresh are in flight together.
C1_Witness ==
    \E t \in TaskIds :
       /\ tasks[t].kind = "refresh"
       /\ {c.slot : c \in InFlight(t)} = DataSlots
       /\ Cardinality(calls) = 5

(***************************************************************************)
(* Properties of refresh.                                                  *)
(***************************************************************************)
SameResult(a, b) == a.state = b.state /\ (a.state = "value" => a.val = b.val)

\* The content page shows the data of res, a timed-out call as its default.
Shows(page, res) ==
    /\ page.page = "content"
    /\ page.isAuthenticated =
          (res[1].state = "value" /\ res[1].val[1] # Null /\ res[1].val[1].authenticated)
    /\ page.trackedRepos = (IF res[3].state = "value" THEN res[3].val[1] ELSE <<>>)
    /\ page.hookStatus = (IF res[4].state = "value" THEN res[4].val[1] ELSE <<>>)
    /\ res[5].state = "timeout" => page.storiesCount = 0
    /\ (res[5].state = "value" /\ res[5].val[1] # Null) =>
          page.storiesCount = StoriesCount(res[5].val[1])

\* C6: in every step of a refresh that awaits its five data calls, a call
\* already settled keeps its value; a timer that fires turns its own call,
\* if still pending, into a timeout and leaves the other four as they were;
\* and when the last call settles with the panel open, the content page is
\* written, showing the defaults for the calls that timed out.
C6_TimeoutsAreIndependent ==
    [][\A t \in TaskIds :
          (tasks[t].kind = "refresh" /\ tasks[t].pc = "await_data") =>
             LET old == tasks[t].loc.res
                 new == tasks'[t].loc.res
                 fired == tasks'[t].loc.timers
             IN  /\ \A k \in DataSlots :
                       old[k].state # "pending" => SameResult(new[k], old[k])
                 /\ fired # tasks[t].loc.timers =>
                       /\ old[fired].state = "pending" => new[fired].state = "timeout"
                       /\ \A j \in DataSlots \ {fired} : SameResult(new[j], old[j])
                 /\ (tasks'[t].pc # "await_data" /\ panel = "open") =>
                       /\ tasks'[t].pc = "done"
                       /\ Shows(html', new)]_vars

\* C6 witness: a refresh has written the content page after the status call
\* timed out and the repository list arrived with a repository in it.
C6_Witness ==
    \E t \in TaskIds :
       /\ tasks[t].kind = "refresh" /\ tasks[t].pc = "done"
       /\ html.page = "content"
       /\ tasks[t].loc.res[1].state = "timeout"
       /\ tasks[t].loc.res[3].state = "value"
       /\ html.trackedRepos # <<>>
       /\ ~html.isAuthenticated

(***************************************************************************)
(* Properties of the failure handling.                                     *)
(***************************************************************************)
\* C7 (as claimed): the promise returned by handleMessage never rejects.
C7_HandleMessageNeverRejects ==
    \A t \in TaskIds : tasks[t].kind = "handleMessage" => tasks[t].pc # "rejected"

MethodFailed(m, r) ==
    ~r.ok \/ (m \notin {"getHookStatus", "exportProfile"} /\ ~r.stdout.json)

\* C8: a query method whose subprocess failed, or printed what is not JSON,
\* resolves with null (getTrackedRepos, getHookStatus and getCommits with
\* the empty list) and has logged an [ERROR] line; addRepo, removeRepo,
\* installHook, removeHook, login and logout reject exactly when their
\* subprocess failed, and no other method rejects.
C8_QueriesReturnDefaults ==
    \A t \in TaskIds :
       (tasks[t].kind = "method" /\ tasks[t].pc # "await_method") =>
          LET m == tasks[t].loc.method
              r == tasks[t].loc.result
              out == tasks[t].loc.out
          IN  /\ m \in VoidMethods => (tasks[t].pc = "rejected" <=> ~r.ok)
              /\ m \notin VoidMethods => tasks[t].pc = "done"
              /\ (m \in NullMethods /\ MethodFailed(m, r)) =>
                    (out.val = Null /\ tasks[t].errs # {})
              /\ (m \in ListMethods /\ MethodFailed(m, r)) =>
                    (out.val = <<>> /\ tasks[t].errs # {})

\* C8 witness: whoami has resolved after its subprocess failed.
C8_Witness ==
    \E t \in TaskIds :
       /\ tasks[t].kind = "method" /\ tasks[t].pc = "done"
       /\ tasks[t].loc.method = "whoami"
       /\ ~tasks[t].loc.result.ok

(***************************************************************************)
(* Properties of the events.                                               *)
(***************************************************************************)
\* The invocations an event issued twice or more.
Repeated(ev) ==
    {issued[ev][i] : i \in {i \in DOMAIN issued[ev] :
                               \E j \in DOMAIN issued[ev] :
                                  i < j /\ issued[ev][i] = issued[ev][j]}}

\* C9 (as claimed): an event issues each invocation at most once, apart from
\* the installation and status probes.
C9_Original ==
    \A ev \in TaskIds :
       \A cmd \in Repeated(ev) : cmd[1] \in {"--version", "status --json"}

\* C9 (amended): an event issues each invocation at most once, apart from
\* the installation probe, the status probe and the listing of the tracked
\* repositories; an invocation that changes something is never issued twice.
C9_OnlyQueriesRepeat ==
    \A ev \in TaskIds :
       \A cmd \in Repeated(ev) :
          cmd[1] \in {"--version", "status --json", "repos list --json"}

\* C9 witness: one event has listed the tracked repositories twice.
C9_Witness ==
    \E ev \in TaskIds : <<"repos list --json", "">> \in Repeated(ev)

\* C10 (as claimed): no step changes the editor's persisted settings.
C10_Original == [][settings' = settings]_vars

\* C10 (amended): the persisted settings change only when handleConfigureLLM
\* writes the keys of repr.llm.*, and when discoverAndPromptForRepos, answered
\* 'Don't Ask Again', switches repr.autoDetect.promptForNewRepos off.
C10_OnlyTwoWriters ==
    [][settings' # settings =>
          \/ /\ \E t \in TaskIds : /\ tasks[t].kind = "free"
                                   /\ tasks'[t].kind = "handleConfigureLLM"
             /\ settings'.promptForNewRepos = settings.promptForNewRepos
             /\ settings'.showOnStartup = settings.showOnStartup
          \/ /\ \E t \in TaskIds :
                   /\ Awaiting(t, "discoverAndPromptForRepos", "await_repos")
                   /\ tasks'[t].pc = "done"
             /\ settings' = [settings EXCEPT !.promptForNewRepos = FALSE]]_vars

\* C10 witness: handleConfigureLLM has made the local provider the setting.
C10_Witness ==
    /\ \E t \in TaskIds : tasks[t].kind = "handleConfigureLLM"
    /\ settings.provider = "local"
    /\ settings.endpoint = "e1"

(***************************************************************************)
(* Properties of the environment of the invocations.                       *)
(***************************************************************************)
EnvNames(env) == {v[1] : v \in env}
Started == calls' \ calls

\* C11: the environment of every invocation holds REPR_LLM_ENDPOINT exactly
\* when the provider is 'local' and the endpoint is non-empty,
\* REPR_LLM_MODEL exactly when the model is non-empty, and REPR_LLM_API_KEY
\* only when the provider is 'local' and the API key is non-empty.
C11_EnvFollowsSettings ==
    [][\A c \in Started :
         /\ "REPR_LLM_ENDPOINT" \in EnvNames(c.env)
              <=> (settings.provider = "local" /\ settings.endpoint # "")
         /\ "REPR_LLM_MODEL" \in EnvNames(c.env) <=> settings.model # ""
         /\ "REPR_LLM_API_KEY" \in EnvNames(c.env)
              => (settings.provider = "local" /\ settings.apiKey # "")]_vars

CloudMessage == "LLM configuration updated! Cloud endpoint will be used."
CloudConfigured ==
    \E t \in TaskIds : /\ tasks[t].kind = "handleConfigureLLM"
                       /\ CloudMessage \in tasks[t].msgs
PickerDismissed ==
    \E t \in TaskIds : /\ tasks[t].kind = "free"
                       /\ tasks'[t].kind = "handleConfigureLLM"
                       /\ tasks'[t].msgs = {}

\* C12: once Configure LLM has completed with the provider Cloud, the
\* provider is 'cloud' and endpoint, model and API key are empty, and every
\* invocation started from then on has no REPR_LLM_* variable of the
\* extension, whatever the settings were before; a dismissed provider picker
\* changes no setting.
C12_CloudClearsEnv ==
    [][/\ CloudConfigured' =>
            /\ settings'.provider = "cloud"
            /\ settings'.endpoint = "" /\ settings'.model = ""
            /\ settings'.apiKey = ""
       /\ CloudConfigured => \A c \in Started : c.env = {}
       /\ PickerDismissed => settings' = settings]_vars

\* After the Cloud choice a sync is started without variables while a sync
\* started under the earlier settings is still running with them.
C12_Witness ==
    /\ CloudConfigured
    /\ \E c, d \in calls : c.env # {} /\ d.env = {}

(***************************************************************************)
(* Properties of the hook commands.                                        *)
(***************************************************************************)
\* The handlers in 'Select specific repositories' (their locals are set).
Selecting == {t \in TaskIds : tasks[t].kind = "handleRemoveHook" /\ tasks[t].loc # <<>>}
CmdsOf(ev, name) == SelectSeq(issued[ev], LAMBDA c : c[1] = name)

Installing == {t \in TaskIds : tasks[t].kind = "handleInstallHook" /\ tasks[t].loc # <<>>}
AllInstalled(repos) == Len(WithoutHooks(repos)) = 0 /\ Len(WithHooks(repos)) > 0
\* The three cases of the claim in which nothing is installed.
NoInstallCase(l) ==
    \/ Len(l.tracked) = 0
    \/ AllInstalled(l.tracked) /\ l.again # "Reinstall Anyway"
    \/ l.action = Undefined
InstallCmd(l) ==
    <<"hooks install", IF l.action = "all" THEN "--all" ELSE l.ws[1]>>

\* C14 as stated: nothing is installed in the three cases, and in every
\* other case there is exactly one 'hooks install' invocation.
C14_Original ==
    \A t \in Installing :
      LET l == tasks[t].loc
          cmds == CmdsOf(tasks[t].ev, "hooks install")
      IN  IF NoInstallCase(l) THEN cmds = <<>> ELSE Len(cmds) = 1

\* C14: no 'hooks install' is invoked when no repository is tracked, when
\* every tracked repository has its hook and the user did not choose
\* 'Reinstall Anyway', when the target pick is dismissed, or when 'current
\* workspace' is chosen with no workspace folder open; in every other case
\* exactly one is invoked, with --all for 'all tracked repos' and with the
\* first workspace folder for 'current workspace'.
C14_InstallsOnceOrNever ==
    \A t \in Installing :
      LET l == tasks[t].loc
          cmds == CmdsOf(tasks[t].ev, "hooks install")
      IN  IF NoInstallCase(l) \/ (l.action = "workspace" /\ l.ws = <<>>)
          THEN cmds = <<>>
          ELSE cmds = <<InstallCmd(l)>>

\* With every hook installed the user chose 'Reinstall Anyway' and the
\* current workspace, whose first folder is not the only one.
C14_Witness ==
    \E t \in Installing :
      /\ tasks[t].pc = "done"
      /\ tasks[t].loc.again = "Reinstall Anyway"
      /\ tasks[t].loc.action = "workspace"
      /\ Len(tasks[t].loc.ws) = 2
      /\ CmdsOf(tasks[t].ev, "hooks install") = << <<"hooks install", "r2">> >>

(***************************************************************************)
(* Properties of the dashboard's tabs and pages.                           *)
(***************************************************************************)
RefreshEnded(ev) ==
    \E u \in TaskIds : /\ tasks[u].kind = "refresh" /\ tasks[u].ev = ev
                       /\ tasks[u].pc = "done"

\* C15: once handleShowStories has run and the refresh it started has
\* completed with the content page, the webview shows the 'stories' tab,
\* whether the panel was open before or was created by the command.
C15_StoriesTabShown ==
    \A t \in TaskIds :
      (tasks[t].kind = "handleShowStories" /\ RefreshEnded(tasks[t].ev)
         /\ html.page = "content")
      => ActiveTab(html) = "stories"

(***************************************************************************)
(* Properties of the commit lists.                                         *)
(***************************************************************************)
ShowingCommits == {t \in TaskIds : tasks[t].kind = "handleShowCommits"}
\* The commits of a list that belong to the repository name, by the fields
\* of the claim.
CommitsOf(commits, name) ==
    SelectSeq(commits,
              LAMBDA c : name = IF c.repo_name # "" THEN c.repo_name
                                ELSE IF c.repoName # "" THEN c.repoName
                                ELSE "Unknown")

\* C16: the days passed to the CLI are 3, 7, 14, 30 or the custom integer,
\* which is at least 1, and nothing is invoked when the pick or the custom
\* input is dismissed; in the document the header counts the commits
\* returned, the repositories are distinct, each one lists the first ten of
\* its commits and, with n > 10 of them, the line '... and n-10 more' (and no
\* such line otherwise), so that every commit is accounted for once.
C16_DocumentListsCommits ==
    \A t \in ShowingCommits :
      LET l == tasks[t].loc
          dismissed == l.selected = Undefined \/ l.customDays = Undefined
      IN  /\ dismissed => issued[tasks[t].ev] = <<>>
          /\ ~dismissed =>
                /\ issued[tasks[t].ev] = << <<"commits --json", ToString(l.days)>> >>
                /\ l.days \in {3, 7, 14, 30} \/ (l.selected = "-1" /\ l.days >= 1)
          /\ (tasks[t].pc = "done" /\ ~dismissed /\ l.doc # <<>>) =>
                LET doc == l.doc[1]
                IN  /\ doc.days = l.days
                    /\ doc.total = Len(l.commits)
                    /\ \A g, h \in 1..Len(doc.repos) :
                          doc.repos[g].repo = doc.repos[h].repo => g = h
                    /\ \A i \in 1..Len(l.commits) :
                          \E g \in 1..Len(doc.repos) :
                             CommitsOf(<<l.commits[i]>>, doc.repos[g].repo) # <<>>
                    /\ \A g \in 1..Len(doc.repos) :
                          LET mine == CommitsOf(l.commits, doc.repos[g].repo)
                              n == Len(mine)
                          IN  /\ n > 0
                              /\ Len(doc.repos[g].lines) <= 10
                              /\ doc.repos[g].lines
                                   = SubSeq(mine, 1, IF n > 10 THEN 10 ELSE n)
                              /\ doc.repos[g].more = IF n > 10 THEN n - 10 ELSE 0

\* The custom range 12 was typed as '12abc'; the document shows two
\* repositories, one of them with more than ten commits.
C16_Witness ==
    \E t \in ShowingCommits :
      /\ tasks[t].pc = "done"
      /\ tasks[t].loc.customDays = "12abc"
      /\ tasks[t].loc.doc # <<>>
      /\ Len(tasks[t].loc.doc[1].repos) = 2
      /\ \E g \in 1..2 : tasks[t].loc.doc[1].repos[g].more > 0

\* C17: a refresh that has started with the panel open eventually writes a
\* page (it is done), unless the panel is closed meanwhile, even when the
\* calls it awaits never complete.
C17_RefreshEventuallyWrites ==
    \A t \in TaskIds :
      (tasks[t].kind = "refresh" /\ tasks[t].pc \in {"await_installed", "await_data"})
         ~> (tasks[t].pc = "done" \/ panel = "none")

(***************************************************************************)
(* Properties of execCommand.                                              *)
(***************************************************************************)
\* C18: a failed invocation whose stdout is JSON with an 'error' field makes
\* execCommand reject with an Error that has that field as its message; any
\* other failed invocation makes it reject with the original error; either
\* way the failure has been logged.
C18_RejectsWithJsonError ==
    \A t \in TaskIds :
      (tasks[t].kind = "method" /\ tasks[t].pc # "await_method"
         /\ ~tasks[t].loc.result.ok)
      => LET out == tasks[t].loc.result.stdout
             e == tasks[t].loc.exec
         IN  /\ e.threw
             /\ e.log # {}
             /\ IF out.json /\ out.val.error # ""
                THEN ~e.error.original /\ e.error.message = out.val.error
                ELSE e.error.original

(***************************************************************************)
(* Properties of the replies to the webview.                               *)
(***************************************************************************)
Loading ==
    {t \in TaskIds : /\ tasks[t].kind = "handleMessage"
                      /\ tasks[t].loc.message \in LoadMessages}
UpdateOf(command) ==
    CASE command = "loadCommits" -> "updateCommits"
      [] command = "loadAllCommits" -> "updateAllCommits"
      [] command = "loadStories" -> "updateStories"
\* The reply carries no data.
EmptyReply(post) ==
    IF post.command = "updateStories" THEN post.stories = <<>>
    ELSE post.data.repos = <<>> /\ post.data.total_commits = 0
\* The call failed, or printed no JSON, or (for commits) no array.
NoList(m, r) ==
    \/ ~r.ok
    \/ ~r.stdout.json
    \/ m.command # "loadStories" /\ r.stdout.text = "null"

SummariesSent ==
    {t \in Loading :
        /\ tasks[t].pc = "done"
        /\ tasks[t].loc.message.command \in {"loadCommits", "loadAllCommits"}
        /\ tasks[t].loc.open
        /\ tasks[t].loc.result.ok
        /\ GetCommits(tasks[t].loc.result).isArray}
\* The group a commit belongs to: repo_name, else repoName, else 'Unknown'.
GroupOf(commit) ==
    IF commit.repo_name # "" THEN commit.repo_name
    ELSE IF commit.repoName # "" THEN commit.repoName
    ELSE "Unknown"
RECURSIVE SumOfCommits(_)
SumOfCommits(repos) ==
    IF repos = <<>> THEN 0 ELSE Head(repos).commits + SumOfCommits(Tail(repos))
\* The summary conserves the counts of the list and highlights the most
\* recent commits of every group.
Conserves(commits, data, all) ==
    LET Assigned(name) == {i \in 1..Len(commits) : GroupOf(commits[i]) = name}
        Groups(name) == {g \in 1..Len(data.repos) : data.repos[g].name = name}
    IN  /\ \A i \in 1..Len(commits) :
              Cardinality(Groups(GroupOf(commits[i]))) = 1
        /\ \A g \in 1..Len(data.repos) :
              data.repos[g].commits = Cardinality(Assigned(data.repos[g].name))
        /\ data.total_commits = SumOfCommits(data.repos)
        /\ data.total_commits = Len(commits)
        /\ \A g \in 1..Len(data.repos) :
              LET group == data.repos[g]
                  h == group.highlights
                  shown == {i \in Assigned(group.name) :
                              \E j \in 1..Len(h) : h[j].hash = commits[i].sha}
              IN  /\ Len(h) = IF all \/ group.commits < HighlightLimit
                               THEN group.commits ELSE HighlightLimit
                  /\ Cardinality(shown) = Len(h)
                  /\ \A j \in 1..Len(h) :
                        \E i \in shown : /\ h[j].hash = commits[i].sha
                                          /\ h[j].date = commits[i].date
                  /\ \A j, k \in 1..Len(h) : j < k => h[j].date >= h[k].date
                  /\ \A i \in shown, o \in Assigned(group.name) \ shown :
                        commits[i].date >= commits[o].date

\* C20: the work summary posted for a list of commits the CLI returned puts
\* each commit into exactly one group (repo_name, else repoName, else
\* 'Unknown'), counts each group, has total_commits equal to the sum of the
\* groups and to the length of the list, and highlights the min(5, count)
\* most recent commits of a group in descending date order for loadCommits
\* and all of them for loadAllCommits.
C20_SummaryConservesCounts ==
    \A t \in SummariesSent :
       Conserves(GetCommits(tasks[t].loc.result).val, tasks[t].loc.posts[1].data,
                 tasks[t].loc.message.command = "loadAllCommits")

\* The same for lists in which no repository is called like a property
\* every object inherits.
C20_ConservesOrdinaryNames ==
    \A t \in SummariesSent :
       ~GroupThrows(GetCommits(tasks[t].loc.result).val) =>
          Conserves(GetCommits(tasks[t].loc.result).val, tasks[t].loc.posts[1].data,
                    tasks[t].loc.message.command = "loadAllCommits")

(***************************************************************************)
(* Properties of getStories.                                               *)
(***************************************************************************)
StoriesCalls == {t \in TaskIds : tasks[t].kind = "getStories"}
\* The CLI printed an array, or an object with or without 'stories'.
StoriesAnswered ==
    {t \in StoriesCalls : /\ tasks[t].pc = "done"
                          /\ tasks[t].loc.result.ok
                          /\ tasks[t].loc.result.stdout.json}

\* C21: for output that is a JSON array or an object (whose missing
\* 'stories' counts as empty), getStories returns as total the number of
\* stories the CLI printed and as stories the first min(limit, total) of
\* them in the CLI's order for a limit > 0 and all of them without a limit
\* or with limit 0; the command line is 'stories --json' with the repo and
\* nothing of since, technologies or limit.
C21_StoriesNormalized ==
    /\ \A c \in calls : c.task \in StoriesCalls =>
          c.cmd = <<"stories --json", tasks[c.task].loc.options.repo>>
    /\ \A t \in StoriesCalls : tasks[t].pc = "done" =>
          /\ Len(issued[t]) = 1
          /\ tasks[t].loc.cmd = <<"stories --json", tasks[t].loc.options.repo>>
    /\ \A t \in StoriesAnswered :
          LET l == tasks[t].loc
              printed == l.result.stdout.val.stories
              total == Len(printed)
              limit == l.options.limit
          IN  /\ l.out.threw = FALSE
              /\ l.out.val.total = total
              /\ l.out.val.stories =
                    IF limit # <<>> /\ limit[1] > 0
                    THEN [i \in 1..(IF limit[1] < total THEN limit[1] ELSE total)
                            |-> printed[i]]
                    ELSE printed

\* An object with two stories was cut to the first by limit 1 while since
\* and technologies were given.
C21_Witness ==
    \E t \in StoriesAnswered :
      LET l == tasks[t].loc
      IN  /\ ~l.result.stdout.val.isArray
          /\ Len(l.result.stdout.val.stories) = 2
          /\ l.options.limit = <<1>>
          /\ l.options.since # "" /\ l.options.technologies # ""
          /\ l.out.val = [stories |-> <<"s1">>, total |-> 2]

(***************************************************************************)
(* Properties of handleLogin.                                              *)
(***************************************************************************)
LoginIds == {t \in TaskIds : t[1] = "login"}
\* The subprocesses task t awaits itself.
OwnCalls(cs, t) == {c \in cs : c.task = t /\ c.slot = 0}
\* dashboard.refresh() was called for event ev in this step.
RefreshCalled(ev) ==
    panel = "open" =>
       \E i \in TaskIds : /\ tasks[i].kind = "free"
                           /\ tasks'[i].kind = "refresh" /\ tasks'[i].ev = ev
RefreshesOf(ts, ev) == {i \in TaskIds : ts[i].kind = "refresh" /\ ts[i].ev = ev}

\* The login invocation of t settles in this step.
LoginSettles(t) ==
    tasks[t].kind = "handleLogin" /\ tasks[t].pc = "await_login" /\ tasks'[t] # tasks[t]
\* The status check of t settles in this step.
CheckSettles(t) ==
    tasks[t].kind = "loginCheck" /\ tasks[t].pc = "await_status" /\ tasks'[t] # tasks[t]

\* C22: when the login invocation fails handleLogin shows 'Login failed',
\* schedules no status check and leaves the status bar as it is; when it
\* succeeds one status check is scheduled, started once when the timer
\* fires (which it does) and, when it settles, sets the status bar to
\* 'synced' with 'Successfully logged in!' and a dashboard refresh exactly
\* if it reported authenticated; otherwise the status bar keeps its state.
C22_LoginSequencing ==
    /\ [][\A t \in LoginIds :
            /\ LoginSettles(t) =>
                  /\ currentState' = currentState
                  /\ OwnCalls(calls', t) = {}
                  /\ RefreshesOf(tasks', tasks[t].ev) = {}
                  /\ IF tasks'[t].loc.loginOk
                     THEN tasks'[t].kind = "loginCheck" /\ tasks'[t].pc = "timer"
                     ELSE /\ tasks'[t].pc = "done"
                          /\ "Login failed" \in tasks'[t].msgs
                          /\ tasks'[t].kind = "handleLogin"
            /\ (tasks[t].kind = "loginCheck" /\ tasks[t].pc = "timer"
                    /\ tasks'[t] # tasks[t]) =>
                  /\ tasks'[t].pc = "await_status"
                  /\ currentState' = currentState
                  /\ {c.cmd : c \in OwnCalls(calls', t)} = {<<"status --json", "">>}
            /\ CheckSettles(t) =>
                  /\ tasks'[t].pc = "done"
                  /\ OwnCalls(calls', t) = {}
                  /\ IF tasks'[t].loc.reported = "authenticated"
                     THEN /\ currentState' = "synced"
                          /\ "Successfully logged in!" \in tasks'[t].msgs
                          /\ RefreshCalled(tasks[t].ev)
                     ELSE /\ currentState' = currentState
                          /\ "Successfully logged in!" \notin tasks'[t].msgs
                          /\ RefreshesOf(tasks', tasks[t].ev) = {}
            /\ tasks[t].pc = "done" => tasks'[t] = tasks[t]]_vars
    /\ \A t \in LoginIds :
         (tasks[t].kind = "loginCheck" /\ tasks[t].pc = "timer")
            ~> (tasks[t].kind = "loginCheck" /\ tasks[t].pc = "await_status")

\* A login failed with the status bar on 'notAuthenticated' and nothing
\* else happened.
C22_Witness ==
    \E t \in LoginIds :
      /\ tasks[t].kind = "handleLogin" /\ tasks[t].pc = "done"
      /\ ~tasks[t].loc.loginOk
      /\ "Login failed" \in tasks[t].msgs
      /\ currentState = "notAuthenticated"
      /\ issued[tasks[t].ev] = << <<"login", "">> >>

(***************************************************************************)
(* Properties of discoverAndPromptForRepos.                                *)
(***************************************************************************)
\* The run of t has shown the prompt.
Prompted(t) ==
    /\ tasks[t].kind = "discoverAndPromptForRepos"
    /\ tasks[t].pc \in {"await_add", "done"}
    /\ tasks[t].loc # <<>>
    /\ tasks[t].loc.prompted
\* The prompt is shown in this step.
Prompts(t) == ~Prompted(t) /\ Prompted(t)'
\* 'repos list --json' succeeded and listed no repository.
ListedNone(r) == r.ok /\ r.stdout.json /\ r.stdout.val = <<>>

\* C23: the prompt is shown only with the setting enabled, the CLI
\* installed, a workspace folder open, no repository tracked according to
\* the CLI and a .git directory in the first folder; and the answer
\* 'Don't Ask Again' switches the setting off, which nothing switches on
\* again, so that no later run shows the prompt.
C23_PromptOnlyForUntracked ==
    [][/\ \A t \in TaskIds : Prompts(t) =>
             /\ settings.promptForNewRepos
             /\ IsInstalled(tasks'[t].loc.installed).val
             /\ tasks'[t].loc.ws # <<>>
             /\ ListedNone(tasks'[t].loc.listed)
             /\ tasks'[t].loc.git = "directory"
             /\ tasks'[t].loc.action = "Don't Ask Again"
                   => ~settings'.promptForNewRepos
       /\ ~settings.promptForNewRepos => ~settings'.promptForNewRepos]_vars

\* The same with the listing as the code reads it: a listing that failed or
\* printed no JSON counts as no repository tracked.
C23_PromptOnlyForNoneListed ==
    [][/\ \A t \in TaskIds : Prompts(t) =>
             /\ settings.promptForNewRepos
             /\ IsInstalled(tasks'[t].loc.installed).val
             /\ tasks'[t].loc.ws # <<>>
             /\ GetTrackedRepos(tasks'[t].loc.listed).val = <<>>
             /\ tasks'[t].loc.git = "directory"
             /\ tasks'[t].loc.action = "Don't Ask Again"
                   => ~settings'.promptForNewRepos
       /\ ~settings.promptForNewRepos => ~settings'.promptForNewRepos]_vars

(***************************************************************************)
(* Properties of refresh and the panel.                                    *)
(***************************************************************************)
Refreshing(t) ==
    tasks[t].kind = "refresh" /\ tasks[t].pc \in {"await_installed", "await_data"}
\* refresh t ends in this step.
RefreshEnds(t) ==
    Refreshing(t) /\ tasks'[t].pc \notin {"await_installed", "await_data"}

\* C25: a refresh that ends while no panel exists ends without throwing
\* and without writing HTML, and a refresh starts its first CLI invocation
\* only with a panel.
C25_NoTouchOfDisposedPanel ==
    [][\A t \in TaskIds :
         /\ (RefreshEnds(t) /\ panel = "none") =>
               /\ tasks'[t].pc = "done"
               /\ tasks'[t].errs = tasks[t].errs
               /\ html' = html
         /\ (tasks[t].kind = "free" /\ tasks'[t].kind = "refresh") =>
               panel' = "open"]_vars

\* The second part alone: the refresh that starts has a panel.
C25_NoInvocationWithoutPanel ==
    [][\A t \in TaskIds :
         (tasks[t].kind = "free" /\ tasks'[t].kind = "refresh") => panel' = "open"]_vars

\* The refreshes that start in this step, and their invocations.
RefreshesStarted ==
    {t \in TaskIds : tasks[t].kind = "free" /\ tasks'[t].kind = "refresh"}

\* C24: at most one webview panel exists, and it is the one the dashboard
\* refers to; show() creates a panel only when there is none, then with the
\* loading page, and otherwise leaves the panel and its page as they are;
\* every show() starts exactly one refresh, which begins with the probe.
C24_OnePanel ==
    /\ [](panels <= 1 /\ (panel = "open" <=> panels = 1))
    /\ [][OpenDashboard =>
            /\ panel' = "open"
            /\ IF panel = "none"
               THEN panels' = panels + 1 /\ html' = Page("loading")
               ELSE panels' = panels /\ html' = html
            /\ Cardinality(RefreshesStarted) = 1
            /\ \A t \in RefreshesStarted :
                  /\ tasks'[t].pc = "await_installed"
                  /\ calls' \ calls =
                        {c \in calls' : c.task = t /\ c.cmd = <<"--version", "">>}
                  /\ Cardinality(calls' \ calls) = 1]_vars
    /\ [][panels' > panels => OpenDashboard]_vars

\* A panel was closed while its refresh was running, and show() has created
\* a fresh one that displays the loading page.
C24_Witness ==
    /\ panel = "open" /\ panels = 1 /\ html = Page("loading")
    /\ \E t, u \in TaskIds :
         /\ tasks[t].kind = "refresh" /\ tasks[t].pc = "rejected"
         /\ tasks[u].kind = "refresh" /\ tasks[u].pc = "await_installed"

\* The refreshes of the behaviour; their slots are taken in the order in
\* which they started.
Refreshes == {t \in TaskIds : tasks[t].kind = "refresh"}
LastStarted == CHOOSE t \in Refreshes : \A u \in Refreshes : u[2] <= t[2]
\* The page a completed refresh has computed and written.
HtmlOf(t) ==
    IF tasks[t].loc = <<>> THEN Page("notInstalled") ELSE ContentOf(tasks[t].loc.res)

\* C26: once every refresh has completed, with the panel open and the
\* refresh that started last completed normally, the webview shows the
\* page that refresh computed.
C26_LastStartedWins ==
    (/\ Refreshes # {}
     /\ \A t \in Refreshes : ~Refreshing(t)
     /\ panel = "open"
     /\ tasks[LastStarted].pc = "done")
    => html = HtmlOf(LastStarted)

\* What the code does guarantee: the webview then shows the page of one of
\* the refreshes that completed normally.
C26_SomeRefreshWins ==
    (/\ Refreshes # {}
     /\ \A t \in Refreshes : ~Refreshing(t)
     /\ panel = "open"
     /\ tasks[LastStarted].pc = "done")
    => \E t \in Refreshes : tasks[t].pc = "done" /\ html = HtmlOf(t)

====
